---- MODULE Spec2Model ----
(***************************************************************************)
(* Model of the merger application (src/src/main.rs, revision 3e3286f      *)
(* "Updater checker and error handling"): the on_merge handler that joins  *)
(* the sample sheet with the optional epi-info export, fills the run       *)
(* constants and writes <run number>_merger_output.csv.                    *)
(*                                                                         *)
(* Text is modelled by atoms (TLA+ strings).  A polars DataFrame is a      *)
(* record [cols, rows]: cols the column names in order, rows a sequence of *)
(* functions from the column names to cells.  A cell is Null or a text.    *)
(***************************************************************************)
EXTENDS Integers, Sequences, FiniteSets, TLC

VARIABLES ui, last, info, upd

vars == <<ui, last, info, upd>>

(***************************************************************************)
(* Bounds of the model.                                                    *)
(***************************************************************************)
MaxSampleRows == 2
MaxEpiRows == 2
\* The last instant of the clock, in ticks of half a minute.
MaxNow == 4

(***************************************************************************)
(* Cells and small helpers.                                                *)
(***************************************************************************)
\* polars' null: what CsvReadOptions::default() yields for an empty field.
Null == "<null>"

Range(s) == {s[i] : i \in DOMAIN s}

Contains(s, x) == \E i \in DOMAIN s : s[i] = x

NoTable == [cols |-> <<>>, rows |-> <<>>]

RECURSIVE FlattenSeq(_)
FlattenSeq(ss) == IF ss = <<>> THEN <<>> ELSE Head(ss) \o FlattenSeq(Tail(ss))

(***************************************************************************)
(* The schema: expected_columns of on_merge.                               *)
(***************************************************************************)
expected_columns ==
    << "sample", "barcode", "IsQCRetest", "IfRetestOriginalRun", "EPID",
       "institute", "SampleType", "CaseOrContact", "Country", "Province",
       "District", "StoolCondition", "SpecimenNumber", "DateOfOnset",
       "DateStoolCollected", "DateStoolReceivedinLab", "DateRNAextraction",
       "DateRTPCR", "RTPCRMachine", "RTPCRprimers", "DateVP1PCR",
       "VP1PCRMachine", "VP1primers", "PositiveControlPCRCheck",
       "NegativeControlPCRCheck", "LibraryPreparationKit", "Well",
       "RunNumber", "DateSeqRunLoaded", "SequencerUsed", "FlowCellVersion",
       "FlowCellID", "FlowCellPriorUses", "PoresAvilableAtFlowCellCheck",
       "MinKNOWSoftwareVersion", "RunHoursDuration", "DateFastaGenerated",
       "AnalysisPipelineVersion", "RunQC", "Classification", "SampleQC",
       "SampleQCChecksComplete", "QCComments", "DateReported" >>

(***************************************************************************)
(* polars DataFrame operations used by on_merge.  Each fallible one        *)
(* returns [ok, df, err].                                                  *)
(***************************************************************************)
Ok(df) == [ok |-> TRUE, df |-> df, err |-> "none"]

Err(e) == [ok |-> FALSE, df |-> NoTable, err |-> e]

\* A check that looks for the first expected column only.
MissingColumnsHeadOnly(expected, actual) ==
    IF Contains(actual, Head(expected)) THEN <<>> ELSE <<Head(expected)>>

\* A check that stops at the first column it misses.
MissingColumnsFirstFound(expected, actual) ==
    LET idx == {i \in DOMAIN expected : ~Contains(actual, expected[i])}
    IN IF idx = {} THEN <<>>
       ELSE <<expected[CHOOSE i \in idx : \A j \in idx : i <= j]>>

\* expected_columns.iter().filter(|col| !actual_columns.contains(col))
MissingColumns(expected, actual) ==
    SelectSeq(expected, LAMBDA c : ~Contains(actual, c))

\* A rename that leaves the table as it is.
RenameNothing(df, old, new) == Ok(df)

\* DataFrame::rename(old, new): the column keeps its place and its cells.
Rename(df, old, new) ==
    IF ~Contains(df.cols, old) THEN Err("ColumnNotFound")
    ELSE IF old = new THEN Ok(df)
    ELSE IF Contains(df.cols, new) THEN Err("Duplicate")
    ELSE LET nm(c) == IF c = old THEN new ELSE c
             newcols == [i \in DOMAIN df.cols |-> nm(df.cols[i])]
             src(c) == IF c = new THEN old ELSE c
         IN Ok([cols |-> newcols,
                rows |-> [i \in DOMAIN df.rows |->
                            [c \in Range(newcols) |-> df.rows[i][src(c)]]]])

\* A drop that drops nothing.
DropNothing(df, names) == df

\* A drop that spares the column named sample.
DropManyButSample(df, names) ==
    LET keep == SelectSeq(df.cols, LAMBDA c : c \notin names \/ c = "sample")
    IN [cols |-> keep,
        rows |-> [i \in DOMAIN df.rows |->
                    [c \in Range(keep) |-> df.rows[i][c]]]]

\* DataFrame::drop_many(names): the named columns go, the others stay in order.

DropMany(df, names) ==
    LET keep == SelectSeq(df.cols, LAMBDA c : c \notin names)
    IN [cols |-> keep,
        rows |-> [i \in DOMAIN df.rows |->
                    [c \in Range(keep) |-> df.rows[i][c]]]]

\* A select that only tests that the named columns are there.
SelectKeepsAll(df, names) ==
    IF \E i \in DOMAIN names : ~Contains(df.cols, names[i])
    THEN Err("ColumnNotFound")
    ELSE Ok(df)

\* DataFrame::select(names): exactly the named columns, in the order named.
Select(df, names) ==
    IF \E i \in DOMAIN names : ~Contains(df.cols, names[i])
    THEN Err("ColumnNotFound")
    ELSE Ok([cols |-> names,
             rows |-> [i \in DOMAIN df.rows |->
                         [c \in Range(names) |-> df.rows[i][c]]]])

\* The name a right-hand column gets in a join when the left table already
\* has a column of that name (polars' "_right" suffix).
SuffixRight(c) ==
    CASE c = "Foo" -> "Foo_right"
      [] c = "Country" -> "Country_right"
      [] c = "EpidNumber" -> "EpidNumber_right"
      [] c = "EPID" -> "EPID_right"
      [] c = "sample" -> "sample_right"
      [] OTHER -> "other_right"

\* A match that takes every right row for every key.
MatchesAnyRow(right, rk, k) == right.rows

\* The rows of the right table whose key equals k, in order.  A null key
\* matches nothing.
Matches(right, rk, k) ==
    IF k = Null THEN <<>>
    ELSE SelectSeq(right.rows, LAMBDA e : e[rk] = k)

\* A join row that never takes the right row's cells.
JoinRowLeftOnly(left, rcols, rnames, l, e, matched) ==
    [c \in Range(left.cols) \cup Range(rnames) |->
        IF c \in Range(left.cols) THEN l[c] ELSE Null]

\* One row of a join result: the left row's cells, then the cells of the
\* right row e under the names the right columns get (all null when the left
\* row has no match).
JoinRow(left, rcols, rnames, l, e, matched) ==
    [c \in Range(left.cols) \cup Range(rnames) |->
        IF c \in Range(left.cols) THEN l[c]
        ELSE LET j == CHOOSE x \in DOMAIN rnames : rnames[x] = c
             IN IF matched THEN e[rcols[j]] ELSE Null]

\* An inner join: the left rows without a match are lost.
InnerJoin(left, right, lk, rk) ==
    IF ~Contains(left.cols, lk) \/ ~Contains(right.cols, rk)
    THEN Err("ColumnNotFound")
    ELSE LET rcols == SelectSeq(right.cols, LAMBDA c : c # rk)
             rnames == [i \in DOMAIN rcols |->
                          IF Contains(left.cols, rcols[i])
                          THEN SuffixRight(rcols[i]) ELSE rcols[i]]
             rowsOf(l) ==
                 LET m == Matches(right, rk, l[lk])
                 IN [j \in DOMAIN m |-> JoinRow(left, rcols, rnames, l, m[j], TRUE)]
         IN Ok([cols |-> left.cols \o rnames,
                rows |-> FlattenSeq([i \in DOMAIN left.rows |-> rowsOf(left.rows[i])])])

\* A join that takes a right table without the key as a table that matches
\* nothing.
LeftJoinRightKeyUnchecked(left, right, lk, rk) ==
    IF ~Contains(left.cols, lk) THEN Err("ColumnNotFound")
    ELSE IF ~Contains(right.cols, rk) THEN Ok(left)
    ELSE LET rcols == SelectSeq(right.cols, LAMBDA c : c # rk)
             rnames == [i \in DOMAIN rcols |->
                          IF Contains(left.cols, rcols[i])
                          THEN SuffixRight(rcols[i]) ELSE rcols[i]]
             rowsOf(l) ==
                 LET m == Matches(right, rk, l[lk])
                 IN IF m = <<>>
                    THEN << JoinRow(left, rcols, rnames, l, l, FALSE) >>
                    ELSE [j \in DOMAIN m |-> JoinRow(left, rcols, rnames, l, m[j], TRUE)]
         IN Ok([cols |-> left.cols \o rnames,
                rows |-> FlattenSeq([i \in DOMAIN left.rows |-> rowsOf(left.rows[i])])])

\* DataFrame::left_join(right, [lk], [rk]): every left row is kept, once per
\* matching right row, in left order; the right key column is coalesced into
\* the left key and does not appear in the result.
LeftJoin(left, right, lk, rk) ==
    IF ~Contains(left.cols, lk) \/ ~Contains(right.cols, rk)
    THEN Err("ColumnNotFound")
    ELSE LET rcols == SelectSeq(right.cols, LAMBDA c : c # rk)
             rnames == [i \in DOMAIN rcols |->
                          IF Contains(left.cols, rcols[i])
                          THEN SuffixRight(rcols[i]) ELSE rcols[i]]
             rowsOf(l) ==
                 LET m == Matches(right, rk, l[lk])
                 IN IF m = <<>>
                    THEN << JoinRow(left, rcols, rnames, l, l, FALSE) >>
                    ELSE [j \in DOMAIN m |-> JoinRow(left, rcols, rnames, l, m[j], TRUE)]
         IN Ok([cols |-> left.cols \o rnames,
                rows |-> FlattenSeq([i \in DOMAIN left.rows |-> rowsOf(left.rows[i])])])


(***************************************************************************)
(* Text.  The atoms whose characters the program looks at (extension       *)
(* tests, the two regular expressions, the split at 'T') are spelled out.  *)
(***************************************************************************)
Chars(s) ==
    CASE s = "" -> <<>>
      [] s = "s.csv" -> <<"s", ".", "c", "s", "v">>
      [] s = "s.txt" -> <<"s", ".", "t", "x", "t">>
      [] s = "e.csv" -> <<"e", ".", "c", "s", "v">>
      [] s = "e.txt" -> <<"e", ".", "t", "x", "t">>
      [] s = "r.html" -> <<"r", ".", "h", "t", "m", "l">>
      [] s = "r.htm" -> <<"r", ".", "h", "t", "m">>
      [] s = "out" -> <<"o", "u", "t">>
      [] s = "20250206_005" ->
             <<"2", "0", "2", "5", "0", "2", "0", "6", "_", "0", "0", "5">>
      [] s = "2025020_5" -> <<"2", "0", "2", "5", "0", "2", "0", "_", "5">>
      [] s = "20250206_0055" ->
             <<"2", "0", "2", "5", "0", "2", "0", "6", "_", "0", "0", "5", "5">>
      [] s = "2025-02-06" -> <<"2", "0", "2", "5", "-", "0", "2", "-", "0", "6">>
      [] s = "2025-02-01" -> <<"2", "0", "2", "5", "-", "0", "2", "-", "0", "1">>
      [] s = "06/02/2025" -> <<"0", "6", "/", "0", "2", "/", "2", "0", "2", "5">>
      [] s = "2025-02-06T15:39" ->
             <<"2", "0", "2", "5", "-", "0", "2", "-", "0", "6", "T",
               "1", "5", ":", "3", "9">>
      [] s = "Unknown" -> <<"U", "n", "k", "n", "o", "w", "n">>
      [] s = "1.0.0" -> <<"1", ".", "0", ".", "0">>
      [] s = "v1.1.0" -> <<"v", "1", ".", "1", ".", "0">>
      [] s = "V0.9" -> <<"V", "0", ".", "9">>
      [] s = "1.0.0-rc1" -> <<"1", ".", "0", ".", "0", "-", "r", "c", "1">>
      [] s = "nightly" -> <<"n", "i", "g", "h", "t", "l", "y">>
      [] s = "rc.2" -> <<"r", "c", ".", "2">>

SpelledAtoms ==
    {"", "s.csv", "s.txt", "e.csv", "e.txt", "r.html", "r.htm", "out",
     "20250206_005", "2025020_5", "20250206_0055", "2025-02-06", "2025-02-01", "06/02/2025",
     "2025-02-06T15:39", "Unknown"}

\* The atom spelled cs.
Atom(cs) == CHOOSE a \in SpelledAtoms : Chars(a) = cs

IsDigit(ch) == ch \in {"0", "1", "2", "3", "4", "5", "6", "7", "8", "9"}

\* A test that looks only for the dot where the suffix would start.
EndsWithDotOnly(s, suffix) ==
    LET cs == Chars(s)
        n == Len(cs)
        k == Len(suffix)
    IN /\ k <= n
       /\ cs[n - k + 1] = suffix[1]

\* str::ends_with
EndsWith(s, suffix) ==
    LET cs == Chars(s)
        n == Len(cs)
        k == Len(suffix)
    IN /\ k <= n
       /\ \A i \in 1..k : cs[n - k + i] = suffix[i]

DotCsv == <<".", "c", "s", "v">>

DotHtml == <<".", "h", "t", "m", "l">>

\* The run number pattern without its anchors: matches anywhere in the text.
run_num_unanchored(s) ==
    LET cs == Chars(s)
    IN \E k \in 0..(Len(cs) - 12) :
          /\ \A i \in 1..8 : IsDigit(cs[k + i])
          /\ cs[k + 9] = "_"
          /\ \A i \in 10..12 : IsDigit(cs[k + i])

\* Regex ^\d{8}_\d{3}$
run_num_regex(s) ==
    LET cs == Chars(s)
    IN /\ Len(cs) = 12
       /\ \A i \in 1..8 : IsDigit(cs[i])
       /\ cs[9] = "_"
       /\ \A i \in 10..12 : IsDigit(cs[i])

\* Regex ^\d{4}-\d{2}-\d{2}$
date_regex(s) ==
    LET cs == Chars(s)
    IN /\ Len(cs) = 10
       /\ \A i \in 1..4 : IsDigit(cs[i])
       /\ cs[5] = "-"
       /\ \A i \in 6..7 : IsDigit(cs[i])
       /\ cs[8] = "-"
       /\ \A i \in 9..10 : IsDigit(cs[i])

\* s.split('T').next(): the text before the first 'T' (all of it if none).
RECURSIVE BeforeT(_)
BeforeT(cs) ==
    IF cs = <<>> \/ Head(cs) = "T" THEN <<>>
    ELSE <<Head(cs)>> \o BeforeT(Tail(cs))

(***************************************************************************)
(* The run report: the JSON after "const reportData=" in the MinKNOW HTML  *)
(* report.  Arrays are sequences of [title, value] entries; a JSON value   *)
(* that is not a string is NonString, a key that is missing is Absent.     *)
(***************************************************************************)
Absent == "<absent>"

NonString == "<nonstring>"

\* No report read: html_content before the file is read.
NoReport ==
    [marker |-> FALSE, json_ok |-> FALSE,
     data |-> [software_versions |-> <<>>, run_setup |-> <<>>,
               run_settings |-> <<>>, run_end_time |-> Absent,
               pore_available |-> Absent]]

\* .and_then(|v| v.as_str()).unwrap_or("Unknown")
StrOrUnknown(v) == IF v \in {Absent, NonString} THEN "Unknown" ELSE v

\* for e in entries { if e.title == title { ui.set_<field>(value or "Unknown") } }
RECURSIVE SetFromEntries(_, _, _, _)
SetFromEntries(u, entries, title, field) ==
    IF entries = <<>> THEN u
    ELSE SetFromEntries(
             IF Head(entries).title = title
             THEN [u EXCEPT ![field] = StrOrUnknown(Head(entries).value)]
             ELSE u,
             Tail(entries), title, field)

\* The date of run_end_time, set whenever the JSON parses.
SeqDateOf(run_end_time) ==
    IF run_end_time \in {Absent, NonString} THEN "Unknown"
    ELSE Atom(BeforeT(Chars(run_end_time)))

\* The block of on_merge that reads the report into the form's fields.
ExtractReport(u, report) ==
    IF ~report.marker \/ ~report.json_ok THEN u
    ELSE LET d == report.data
             u1 == SetFromEntries(u, d.software_versions, "MinKNOW", "minknow_ver")
             u2 == SetFromEntries(u1, d.run_setup, "Flow cell ID", "fc_id")
             u3 == SetFromEntries(u2, d.run_setup, "Kit type", "seq_kit")
             u4 == SetFromEntries(u3, d.run_settings, "Run limit", "seq_hours")
             u5 == [u4 EXCEPT !.seq_date = SeqDateOf(d.run_end_time)]
         IN IF d.pore_available \in {Absent, NonString} THEN u5
            ELSE [u5 EXCEPT !.fc_pores = d.pore_available]


(***************************************************************************)
(* on_merge.  cx is the handler's context: the form as it stands (u), the  *)
(* mode argument, what the environment hands it (env: the files' contents  *)
(* and the outcome of each file operation) and the tables built so far.    *)
(* Every exit yields [ui, last]: the form after the handler and the record *)
(* of this invocation.                                                     *)
(***************************************************************************)
Cx0(u, mode, env) ==
    [u0 |-> u, u |-> u, mode |-> mode, env |-> env, stages |-> <<>>,
     report_read |-> FALSE, epi_given |-> FALSE,
     sample |-> NoTable, epi |-> NoTable, sample_side |-> NoTable,
     joined |-> NoTable, merged |-> NoTable, filled |-> NoTable,
     final |-> NoTable, missing |-> <<>>,
     file |-> "none", file_name |-> <<>>, written |-> NoTable,
     report |-> NoReport]

Finish(cx, status, dialog) ==
    [ui |-> cx.u,
     last |-> [op |-> "merge", mode |-> cx.mode, status |-> status,
               dialog |-> dialog,
               before |-> cx.u0, stages |-> cx.stages,
               report_read |-> cx.report_read, epi_given |-> cx.epi_given,
               sample |-> cx.sample, epi |-> cx.epi,
               sample_side |-> cx.sample_side, joined |-> cx.joined,
               merged |-> cx.merged, filled |-> cx.filled, final |-> cx.final,
               missing |-> cx.missing, file |-> cx.file,
               file_name |-> cx.file_name, written |-> cx.written,
               report |-> cx.report]]

\* The popup a handler raises: which one (error or info), its title and its
\* message.
Dialog(kind, title, message) == [kind |-> kind, title |-> title, message |-> message]

NoDialog == Dialog("none", "", <<>>)

\* An unwrap in place of the match: the handler panics and shows nothing.
PanicOnError(cx, title, message) == Finish(cx, "panic", NoDialog)

\* ui.set_error_title(..); ui.set_error_message(..); ui.set_show_error(1.0); return
ShowError(cx, title, message) == Finish(cx, "error", Dialog("error", title, message))

\* ui.set_info_title(..); ui.set_info_message(..); ui.set_show_info(1.0)
ShowInfo(cx, title, message) == Finish(cx, "ok", Dialog("info", title, message))

Reached(cx, stage) == [cx EXCEPT !.stages = Append(cx.stages, stage)]

\* CsvWriter renders a null cell as an empty field.
CsvCell(cell) == IF cell = Null THEN "" ELSE cell

CsvRender(df) ==
    [cols |-> df.cols,
     rows |-> [i \in DOMAIN df.rows |->
                 [c \in Range(df.cols) |-> CsvCell(df.rows[i][c])]]]

\* "saving to destination" and the success message.
WriteStage(cx0, df) ==
    LET cx == [Reached(cx0, "write") EXCEPT
                   !.final = df,
                   !.file_name = <<cx0.u.destination, "/", cx0.u.run_num,
                                   "_merger_output.csv">>]
    IN IF cx.env.create_io # "ok"
       THEN ShowError(cx, "File Create Error",
                      <<"Failed to create output file at", cx.u.destination>>)
       ELSE IF cx.env.write_io # "ok"
       THEN ShowError([cx EXCEPT !.file = "partial"], "CSV Write Error",
                      <<"Failed to write output CSV:", cx.env.write_io>>)
       ELSE LET done == [cx EXCEPT !.file = "written", !.written = CsvRender(df)]
            IN CASE cx.mode = "merge" ->
                        ShowInfo(done, "Merge Successful",
                                 <<"Merged Detailed Run Report saved to destination as",
                                   cx.u.run_num, "_merger_output.csv">>)
                 [] cx.mode = "update" ->
                        ShowInfo(done, "Update Succesful",
                                 <<"Updated Detailed Run Report saved to destination.">>)
                 [] OTHER -> Finish(done, "ok", NoDialog)

\* A mapping of the positive control without the catch-all arm.
pos_con_unchecked(selection) ==
    CASE selection = "Positive Passed" -> "Pass"
      [] selection = "Positive Failed" -> "Fail"
      [] selection = "Unselected" -> ""
      [] OTHER -> selection

\* The PCR control selections.
pos_con(selection) ==
    CASE selection = "Positive Passed" -> "Pass"
      [] selection = "Positive Failed" -> "Fail"
      [] selection = "Unselected" -> ""
      [] OTHER -> "unknown"

neg_con(selection) ==
    CASE selection = "Negative Passed" -> "Pass"
      [] selection = "Negative Failed" -> "Fail"
      [] selection = "Unselected" -> ""
      [] OTHER -> "unknown"

\* The fill with the flow cell's ID and prior uses taken from each other's
\* field.
RunConstantsSwapped(u) ==
    << <<"institute", u.lab>>,
       <<"RunNumber", u.run_num>>,
       <<"MinKNOWSoftwareVersion", u.minknow_ver>>,
       <<"AnalysisPipelineVersion", u.pir_ver>>,
       <<"DateRTPCR", u.rt_date>>,
       <<"DateVP1PCR", u.vp1_date>>,
       <<"RTPCRMachine", u.pcr_machine>>,
       <<"VP1PCRMachine", u.pcr_machine>>,
       <<"PositiveControlPCRCheck", pos_con(u.pos_con)>>,
       <<"NegativeControlPCRCheck", neg_con(u.neg_con)>>,
       <<"LibraryPreparationKit", u.seq_kit>>,
       <<"DateSeqRunLoaded", u.seq_date>>,
       <<"FlowCellID", u.fc_uses>>,
       <<"FlowCellPriorUses", u.fc_id>>,
       <<"PoresAvilableAtFlowCellCheck", u.fc_pores>>,
       <<"RunHoursDuration", u.seq_hours>>,
       <<"DateFastaGenerated", u.fasta_date>> >>

\* The columns filled and the value each is filled with.
RunConstants(u) ==
    << <<"institute", u.lab>>,
       <<"RunNumber", u.run_num>>,
       <<"MinKNOWSoftwareVersion", u.minknow_ver>>,
       <<"AnalysisPipelineVersion", u.pir_ver>>,
       <<"DateRTPCR", u.rt_date>>,
       <<"DateVP1PCR", u.vp1_date>>,
       <<"RTPCRMachine", u.pcr_machine>>,
       <<"VP1PCRMachine", u.pcr_machine>>,
       <<"PositiveControlPCRCheck", pos_con(u.pos_con)>>,
       <<"NegativeControlPCRCheck", neg_con(u.neg_con)>>,
       <<"LibraryPreparationKit", u.seq_kit>>,
       <<"DateSeqRunLoaded", u.seq_date>>,
       <<"FlowCellID", u.fc_id>>,
       <<"FlowCellPriorUses", u.fc_uses>>,
       <<"PoresAvilableAtFlowCellCheck", u.fc_pores>>,
       <<"RunHoursDuration", u.seq_hours>>,
       <<"DateFastaGenerated", u.fasta_date>> >>

\* A fill that overwrites whatever the cell holds.
OverwriteCell(cell, v) == v

\* col(name).fill_null(lit(v)): only the null cells of the column change.
FillNullCell(cell, v) == IF cell = Null THEN v ELSE cell

\* lazy().with_columns([col(c).fill_null(lit(v)), ...]).collect()
WithColumnsFillNull(df, fills) ==
    IF \E i \in DOMAIN fills : ~Contains(df.cols, fills[i][1])
    THEN Err("ColumnNotFound")
    ELSE LET valueFor(c) == fills[CHOOSE i \in DOMAIN fills : fills[i][1] = c][2]
             isFilled(c) == \E i \in DOMAIN fills : fills[i][1] = c
         IN Ok([cols |-> df.cols,
                rows |-> [i \in DOMAIN df.rows |->
                            [c \in Range(df.cols) |->
                                IF isFilled(c)
                                THEN FillNullCell(df.rows[i][c], valueFor(c))
                                ELSE df.rows[i][c]]]])

\* The date fields without the VP1 PCR date.
DateFieldsWithoutVp1(u) ==
    << <<"RT PCR Date", u.rt_date>>,
       <<"Sequencing Date", u.seq_date>>,
       <<"Fasta Generation Date", u.fasta_date>> >>

\* The date fields checked, in the order of date_fields, with their labels.
DateFields(u) ==
    << <<"RT PCR Date", u.rt_date>>,
       <<"VP1 PCR Date", u.vp1_date>>,
       <<"Sequencing Date", u.seq_date>>,
       <<"Fasta Generation Date", u.fasta_date>> >>

\* A check that stops at the first date it rejects.
DateErrorsFirstOnly(u) ==
    LET bad == SelectSeq(DateFields(u),
                         LAMBDA f : f[2] # "" /\ ~date_regex(f[2]))
    IN IF bad = <<>> THEN <<>>
       ELSE <<"Invalid date format for field", bad[1][1], bad[1][2]>>

\* for (index, date) in date_fields: every rejected date adds its error.
DateErrors(u) ==
    LET bad == SelectSeq(DateFields(u),
                         LAMBDA f : f[2] # "" /\ ~date_regex(f[2]))
    IN FlattenSeq([i \in DOMAIN bad |->
                     <<"Invalid date format for field", bad[i][1], bad[i][2]>>])

RunNumErr(u) ==
    IF u.run_num # "" /\ ~run_num_regex(u.run_num)
    THEN <<"Invalid run number format:", u.run_num, "Expected yyyymmdd_xxx.">>
    ELSE <<>>

\* A match that takes the fill arm whatever the mode is.
AnyAction(mode) == TRUE

\* match mode { "merge" => ..., _ => ... }: the arm that fills.
IsMergeAction(mode) == mode = "merge"

\* match mode { "merge" => validate the formats and fill, _ => select only }
FillStage(cx0) ==
    IF IsMergeAction(cx0.mode)
    THEN LET cx == Reached(cx0, "format_check")
             date_errors == DateErrors(cx.u)
             run_num_err == RunNumErr(cx.u)
         IN IF date_errors # <<>> \/ run_num_err # <<>>
            THEN ShowError(cx, "Input Format Error",
                           (IF date_errors # <<>>
                            THEN date_errors \o <<"Expected yyyy-mm-dd.">>
                            ELSE <<>>)
                           \o run_num_err
                           \o <<"Refer to the Guide for more information.">>)
            ELSE LET cxf == Reached(cx, "fill")
                     f == WithColumnsFillNull(cx.merged, RunConstants(cx.u))
                 IN IF ~f.ok
                    THEN ShowError(cxf, "Run Constants Error",
                                   <<"Failed to fill run constants:", f.err>>)
                    ELSE LET cxs == Reached([cxf EXCEPT !.filled = f.df], "project")
                             sel == Select(f.df, expected_columns)
                         IN IF ~sel.ok
                            THEN ShowError(cxs, "Select Columns Error",
                                   <<"Failed to select expected columns after merge:",
                                     sel.err>>)
                            ELSE WriteStage(cxs, sel.df)
    ELSE LET cxs == Reached(cx0, "project")
             sel == Select(cx0.merged, expected_columns)
         IN IF ~sel.ok
            THEN ShowError(cxs, "Select Columns Error",
                           <<"Failed to select expected columns in update mode:",
                             sel.err>>)
            ELSE WriteStage(cxs, sel.df)


\* "Separating operations depending on if epi info is present": the match
\* that yields merged_df.
JoinStage(cx0) ==
    IF cx0.epi_given
    THEN LET cx == Reached(cx0, "join")
             renamed == Rename(cx.sample, "EPID", "EpidNumber")
         IN IF ~renamed.ok
            THEN ShowError(cx, "Rename Error",
                           <<"Failed to rename EPID column:", renamed.err>>)
            ELSE LET sample_cols == Range(renamed.df.cols)
                     epi_cols == Range(cx.epi.cols)
                     common_columns == sample_cols \cap epi_cols
                     sample_df == DropMany(renamed.df, common_columns)
                     cxd == [cx EXCEPT !.sample_side = sample_df]
                     joined == LeftJoin(sample_df, cx.epi, "sample", "ICLabID")
                 IN IF ~joined.ok
                    THEN ShowError(cxd, "Merge Error",
                                   <<"Failed to merge dataframes. Reason ->",
                                     joined.err>>)
                    ELSE LET cxj == [cxd EXCEPT !.joined = joined.df]
                             back == Rename(joined.df, "EpidNumber", "EPID")
                         IN IF ~back.ok
                            THEN ShowError(cxj, "Rename Error",
                                           <<"Failed to rename EpidNumber column:",
                                             back.err>>)
                            ELSE LET sel == Select(back.df, expected_columns)
                                 IN IF ~sel.ok
                                    THEN ShowError(cxj, "Select Columns Error",
                                           <<"Failed to select expected columns:",
                                             sel.err>>)
                                    ELSE FillStage([cxj EXCEPT !.merged = sel.df])
    ELSE LET cx == Reached(cx0, "skip_join")
             sel == Select(cx.sample, expected_columns)
         IN IF ~sel.ok
            THEN ShowError(cx, "Select Columns Error",
                           <<"Failed to select expected columns:", sel.err>>)
            ELSE FillStage([cx EXCEPT !.merged = sel.df])

\* A handler that goes on to the join without looking at the header.
ValidateStageSkipped(cx0) == JoinStage(cx0)

\* "Validate headers for the sample DataFrame".
ValidateStage(cx0) ==
    LET cx1 == Reached(cx0, "validate")
        actual_columns == cx1.sample.cols
        missing == MissingColumns(expected_columns, actual_columns)
        cx == [cx1 EXCEPT !.missing = missing]
    IN IF missing # <<>>
       THEN ShowError(cx, "Missing Columns",
                      <<"These columns were missing from Samples CSV file:">>
                      \o missing)
       ELSE JoinStage(cx)

\* "create epiinfo df": read only when a path was given.
LoadEpiStage(cx0, epiinfo_missing) ==
    IF epiinfo_missing THEN ValidateStage(cx0)
    ELSE LET cx == Reached(cx0, "load_epi")
         IN CASE cx.env.epi_io = "reader_err" ->
                     ShowError(cx, "CSV Reader Error",
                               <<"Failed to create CSV reader for EpiInfo file:",
                                 cx.env.epi_io>>)
              [] cx.env.epi_io = "read_err" ->
                     ShowError(cx, "CSV Read Error",
                               <<"Failed to read EpiInfo CSV - This error is likely due to incorrect CSV file encoding. Save the CSV as UTF-8 encoded and try again">>)
              [] OTHER ->
                     ValidateStage([cx EXCEPT !.epi_given = TRUE,
                                              !.epi = cx.env.epi])

\* "create piranha df".
LoadSampleStage(cx0, epiinfo_missing) ==
    LET cx == Reached(cx0, "load_sample")
    IN CASE cx.env.sample_io = "reader_err" ->
                ShowError(cx, "CSV Reader Error",
                          <<"Failed to create CSV reader for sample file:",
                            cx.env.sample_io>>)
         [] cx.env.sample_io = "read_err" ->
                ShowError(cx, "CSV Read Error",
                          <<"Failed to read sample CSV:", cx.env.sample_io>>)
         [] OTHER ->
                LoadEpiStage([cx EXCEPT !.sample = cx.env.sample], epiinfo_missing)

\* "Read the HTML file", find the report data and copy it into the form.
ReportStage(cx0, epiinfo_missing) ==
    LET cx == Reached(cx0, "report")
    IN CASE cx.env.html_io = "open_err" ->
                ShowError(cx, "File Open Error",
                          <<"Failed to open HTML file at", cx.u.minknow_file>>)
         [] cx.env.html_io = "read_err" ->
                ShowError(cx, "File Read Error",
                          <<"Failed to read HTML file at", cx.u.minknow_file>>)
         [] OTHER ->
                LoadSampleStage([cx EXCEPT !.report_read = TRUE,
                                           !.report = cx.env.report,
                                           !.u = ExtractReport(cx.u, cx.env.report)],
                                epiinfo_missing)

\* The extension test without the guard for a path left empty.
EpiExtensionRejectedAlways(epiinfo_path, epiinfo_missing) ==
    ~EndsWith(epiinfo_path, DotCsv)

\* if !epiinfo_path.ends_with(".csv") && !epiinfo_missing
EpiExtensionRejected(epiinfo_path, epiinfo_missing) ==
    ~EndsWith(epiinfo_path, DotCsv) /\ ~epiinfo_missing

\* A file check that asks for the epi-info path as well.
FilesPresentWithEpi(u) ==
    /\ u.sample_file # ""
    /\ u.minknow_file # ""
    /\ u.epiinfo_file # ""
    /\ u.destination # ""

\* "check if no files provided": files_present after the four tests.
FilesPresent(u) ==
    /\ u.sample_file # ""
    /\ u.minknow_file # ""
    /\ u.destination # ""

\* The callback registered with ui.on_merge.
OnMerge(u, mode, env) ==
    LET cx == Cx0(u, mode, env)
        files_present == FilesPresent(u)
        epiinfo_missing == u.epiinfo_file = ""
    IN IF ~files_present THEN Finish(cx, "silent", NoDialog)
       ELSE IF ~EndsWith(u.sample_file, DotCsv)
       THEN ShowError(cx, "Invalid Input",
                      <<"Sample file selected is not a CSV file. Please change to CSV.">>)
       ELSE IF EpiExtensionRejected(u.epiinfo_file, epiinfo_missing)
       THEN ShowError(cx, "Invalid Input",
                      <<"Epi Info file selected is not a CSV file. Please change to CSV.">>)
       ELSE IF ~EndsWith(u.minknow_file, DotHtml)
       THEN ShowError(cx, "Invalid Input",
                      <<"File selected is not a HTML file. Please change to HTML.">>)
       ELSE ReportStage(cx, epiinfo_missing)


(***************************************************************************)
(* The inputs explored: sample sheets, epi-info exports, run reports and   *)
(* what the file operations return.                                        *)
(***************************************************************************)
BoundedSeq(S, n) == UNION {[1..k -> S] : k \in 0..n}

Without(cols, names) == SelectSeq(cols, LAMBDA c : c \notin names)

\* The header lines of the sample sheets: the template, a sheet with the
\* columns in another order and one more column, a sheet that lacks two
\* columns, and a sheet that already has an EpidNumber column.
SampleHeaders ==
    { expected_columns,
      <<"DateReported", "Foo">> \o Without(expected_columns, {"DateReported"}),
      <<"Foo">> \o Without(expected_columns, {"IsQCRetest", "QCComments"}),
      expected_columns \o <<"EpidNumber">> }

\* The columns on_merge fills in the merge action.
FillColumnNames ==
    {"institute", "RunNumber", "MinKNOWSoftwareVersion", "AnalysisPipelineVersion",
     "DateRTPCR", "DateVP1PCR", "RTPCRMachine", "VP1PCRMachine",
     "PositiveControlPCRCheck", "NegativeControlPCRCheck", "LibraryPreparationKit",
     "DateSeqRunLoaded", "FlowCellID", "FlowCellPriorUses",
     "PoresAvilableAtFlowCellCheck", "RunHoursDuration", "DateFastaGenerated"}

\* A row of a sample sheet: "bare" has the key and the barcode only, "some"
\* has its own EPID, country, run number and positive control as well, "all"
\* has a value in every column the merge action fills.
SampleRow(cols, key, kind) ==
    [c \in Range(cols) |->
        CASE c = "sample" -> key
          [] c = "barcode" -> "bc01"
          [] c = "EPID" -> IF kind = "bare" THEN Null ELSE "EP-s"
          [] c \in {"Country", "Foo"} -> IF kind = "bare" THEN Null ELSE "s-val"
          [] c \in {"RunNumber", "PositiveControlPCRCheck"} ->
                 IF kind = "bare" THEN Null ELSE "prev"
          [] c \in FillColumnNames -> IF kind = "all" THEN "prev" ELSE Null
          [] OTHER -> Null]

SampleRowKinds == {<<"A", "bare">>, <<"A", "some">>, <<"B", "all">>}

SampleTable(cols, kinds) ==
    [cols |-> cols,
     rows |-> [i \in DOMAIN kinds |-> SampleRow(cols, kinds[i][1], kinds[i][2])]]

\* The header lines of the epi-info exports: with a column of its own, with
\* columns the sample sheet has too, with EPID, with a column named sample,
\* and without the key ICLabID.
EpiHeaders ==
    { <<"ICLabID", "Foo">>,
      <<"ICLabID", "EpidNumber", "Country">>,
      <<"ICLabID", "EPID">>,
      <<"sample", "ICLabID", "Foo">>,
      <<"Foo", "Country">> }

EpiRow(cols, key, v) ==
    [c \in Range(cols) |-> IF c \in {"ICLabID", "sample"} THEN key ELSE v]

EpiRowKinds == {<<"A", "e1">>, <<"A", Null>>, <<"B", "e2">>}

EpiTable(cols, kinds) ==
    [cols |-> cols,
     rows |-> [i \in DOMAIN kinds |-> EpiRow(cols, kinds[i][1], kinds[i][2])]]

Entry(t, v) == [title |-> t, value |-> v]

FullReportData ==
    [software_versions |-> << Entry("Bream", "8.2.5"), Entry("MinKNOW", "24.11.8") >>,
     run_setup |-> << Entry("Flow cell type", "FLO-MIN114"),
                      Entry("Flow cell ID", "FBA38845"),
                      Entry("Kit type", "SQK-NBD114-96") >>,
     run_settings |-> << Entry("Run limit", "72 hrs") >>,
     run_end_time |-> "2025-02-06T15:39",
     pore_available |-> "1432"]

FullReport == [marker |-> TRUE, json_ok |-> TRUE, data |-> FullReportData]

NoMarkerReport == [marker |-> FALSE, json_ok |-> TRUE, data |-> FullReportData]

BadJsonReport == [marker |-> TRUE, json_ok |-> FALSE, data |-> FullReportData]

NoEndTimeReport ==
    [marker |-> TRUE, json_ok |-> TRUE,
     data |-> [FullReportData EXCEPT !.run_end_time = Absent]]

\* A report whose JSON parses but has no MinKNOW entry, a flow cell ID that
\* is not a string, no kit type, no run settings and no pore scan.
PartialReport ==
    [marker |-> TRUE, json_ok |-> TRUE,
     data |-> [software_versions |-> << Entry("Bream", "8.2.5") >>,
               run_setup |-> << Entry("Flow cell type", "FLO-MIN114"),
                                Entry("Flow cell ID", NonString) >>,
               run_settings |-> <<>>,
               run_end_time |-> "2025-02-06T15:39",
               pore_available |-> Absent]]

Reports ==
    {FullReport, NoMarkerReport, BadJsonReport, NoEndTimeReport, PartialReport}

Env(html_io, report, sample_io, sample, epi_io, epi, create_io, write_io) ==
    [html_io |-> html_io, report |-> report, sample_io |-> sample_io,
     sample |-> sample, epi_io |-> epi_io, epi |-> epi,
     create_io |-> create_io, write_io |-> write_io]

\* Every file operation succeeds.
GoodEnv(report, sample, epi) ==
    Env("ok", report, "ok", sample, "ok", epi, "ok", "ok")

\* One file operation fails.
FailingEnvs(report, sample, epi) ==
    { Env("open_err", report, "ok", sample, "ok", epi, "ok", "ok"),
      Env("read_err", report, "ok", sample, "ok", epi, "ok", "ok"),
      Env("ok", report, "reader_err", sample, "ok", epi, "ok", "ok"),
      Env("ok", report, "read_err", sample, "ok", epi, "ok", "ok"),
      Env("ok", report, "ok", sample, "reader_err", epi, "ok", "ok"),
      Env("ok", report, "ok", sample, "read_err", epi, "ok", "ok"),
      Env("ok", report, "ok", sample, "ok", epi, "err", "ok"),
      Env("ok", report, "ok", sample, "ok", epi, "ok", "err") }

\* A few sheets for the runs where the form, the report or the file system
\* is what varies.
FewSampleTables ==
    { SampleTable(expected_columns, << <<"A", "bare">>, <<"B", "all">> >>),
      SampleTable(<<"DateReported", "Foo">> \o Without(expected_columns, {"DateReported"}),
                  << <<"A", "some">> >>),
      SampleTable(Without(expected_columns, {"DateReported"}), << <<"A", "bare">> >>) }

FewEpiTables ==
    { EpiTable(<<"ICLabID", "EpidNumber", "Country">>, << <<"A", "e1">> >>),
      EpiTable(<<"Foo", "Country">>, << <<"A", "e1">> >>) }

FewEnvs ==
    {GoodEnv(r, s, e) : r \in Reports, s \in FewSampleTables, e \in FewEpiTables}
    \cup UNION {FailingEnvs(FullReport, s, e) : s \in FewSampleTables, e \in FewEpiTables}

\* The files while the application stays open and merge is pressed again
\* and again.
LifeSample == SampleTable(expected_columns, << <<"A", "bare">>, <<"B", "all">> >>)

LifeEpi == EpiTable(<<"ICLabID", "EpidNumber", "Country">>, << <<"A", "e1">> >>)

LifeEnvs ==
    {GoodEnv(r, LifeSample, LifeEpi) : r \in Reports}
    \cup FailingEnvs(FullReport, LifeSample, LifeEpi)
    \cup {GoodEnv(FullReport,
                   SampleTable(Without(expected_columns, {"DateReported"}),
                               << <<"A", "bare">> >>),
                   EpiTable(<<"Foo", "Country">>, << <<"A", "e1">> >>)),
          GoodEnv(FullReport, LifeSample,
                  EpiTable(<<"Foo", "Country">>, << <<"A", "e1">> >>)),
          GoodEnv(FullReport, LifeSample,
                  EpiTable(<<"ICLabID", "EPID">>, << <<"A", "e1">> >>))}

(***************************************************************************)
(* The form.                                                               *)
(***************************************************************************)
EmptyForm ==
    [lab |-> "", run_num |-> "", pir_ver |-> "", minknow_ver |-> "",
     rt_date |-> "", vp1_date |-> "", seq_date |-> "", fasta_date |-> "",
     pcr_machine |-> "", pos_con |-> "Unselected", neg_con |-> "Unselected",
     seq_kit |-> "", seq_hours |-> "", fc_id |-> "", fc_pores |-> "",
     fc_uses |-> ""]

FullForm ==
    [lab |-> "LabX", run_num |-> "20250206_005", pir_ver |-> "pir-1.2",
     minknow_ver |-> "mk-typed", rt_date |-> "2025-02-01",
     vp1_date |-> "2025-02-06", seq_date |-> "2025-02-01",
     fasta_date |-> "2025-02-06", pcr_machine |-> "pcr-M",
     pos_con |-> "Positive Passed", neg_con |-> "Negative Failed",
     seq_kit |-> "kit-typed", seq_hours |-> "hours-typed",
     fc_id |-> "fc-typed", fc_pores |-> "pores-typed", fc_uses |-> "uses-2"]

BadRunNumForm == [FullForm EXCEPT !.run_num = "2025020_5"]

BadDatesForm ==
    [FullForm EXCEPT !.rt_date = "06/02/2025", !.fasta_date = "06/02/2025"]

Forms == {EmptyForm, FullForm, BadRunNumForm, BadDatesForm}

\* More forms for the single invocation: a run number one digit too long, a
\* bad VP1 date alone, a bad run number with bad dates, and the other
\* selections of the two PCR controls.
LongRunNumForm == [FullForm EXCEPT !.run_num = "20250206_0055"]

BadVp1Form == [FullForm EXCEPT !.vp1_date = "06/02/2025"]

BadAllForm ==
    [FullForm EXCEPT !.run_num = "2025020_5", !.rt_date = "06/02/2025",
                     !.fasta_date = "06/02/2025"]

ControlForms ==
    {[FullForm EXCEPT !.pos_con = p, !.neg_con = n] :
        p \in {"Positive Failed", "Unselected", "Negative Passed"},
        n \in {"Negative Passed", "Unselected", "maybe"}}

OnceForms ==
    Forms \cup {LongRunNumForm, BadVp1Form, BadAllForm} \cup ControlForms

FormFields == DOMAIN EmptyForm

Paths(sample_file, epiinfo_file, minknow_file, destination) ==
    [sample_file |-> sample_file, epiinfo_file |-> epiinfo_file,
     minknow_file |-> minknow_file, destination |-> destination]

BlankUi == Paths("", "", "", "") @@ EmptyForm

\* The record of a handler other than on_merge.
Idle(op) ==
    [op |-> op, mode |-> "", status |-> "none", dialog |-> NoDialog,
     before |-> BlankUi, stages |-> <<>>,
     report_read |-> FALSE, epi_given |-> FALSE,
     sample |-> NoTable, epi |-> NoTable, sample_side |-> NoTable,
     joined |-> NoTable, merged |-> NoTable, filled |-> NoTable,
     final |-> NoTable, missing |-> <<>>, file |-> "none",
     file_name |-> <<>>, written |-> NoTable, report |-> NoReport]

(***************************************************************************)
(* The update checker (src/updateChecker/src/lib.rs).  The state file is   *)
(* [exists, json_ok, state]; a saved timestamp is [some, parses, t] with t *)
(* the instant in ticks of half a minute (to_rfc3339 keeps the instant to  *)
(* the nanosecond, so parsing the text gives the instant back).            *)
(***************************************************************************)
None == "<none>"

NoIso == [some |-> FALSE, parses |-> FALSE, t |-> 0]

BadIso == [some |-> TRUE, parses |-> FALSE, t |-> 0]

\* Some(Utc::now().to_rfc3339())
Iso(t) == [some |-> TRUE, parses |-> TRUE, t |-> t]

\* SavedState::default()
DefaultState == [last_checked_iso |-> NoIso, etag |-> None, seen_version |-> None]

NoStateFile == [exists |-> FALSE, json_ok |-> FALSE, state |-> DefaultState]

CorruptStateFile == [exists |-> TRUE, json_ok |-> FALSE, state |-> DefaultState]

StateFile(state) == [exists |-> TRUE, json_ok |-> TRUE, state |-> state]

\* load_state().unwrap_or_default(): io = "err" when state_path or the
\* file cannot be had.
LoadStateOrDefault(file, io) ==
    IF io # "ok" \/ ~file.exists \/ ~file.json_ok THEN DefaultState
    ELSE file.state

\* save_state: [ok, file].
SaveState(file, state, io) ==
    IF io # "ok" THEN [ok |-> FALSE, file |-> file]
    ELSE [ok |-> TRUE, file |-> StateFile(state)]

\* Duration::num_minutes of d ticks: whole minutes, rounded toward zero.
NumMinutes(d) == IF d >= 0 THEN d \div 2 ELSE -((-d) \div 2)

\* A test that lets a check through a minute before the interval is over.
ShouldCheckEarly(c, file, now, io) ==
    IF c.min_interval_minutes <= 0 THEN TRUE
    ELSE LET iso == LoadStateOrDefault(file, io).last_checked_iso
         IN IF ~iso.some \/ ~iso.parses THEN TRUE
            ELSE NumMinutes(now - iso.t) >= c.min_interval_minutes - 1

\* should_check_now
ShouldCheckNow(c, file, now, io) ==
    IF c.min_interval_minutes <= 0 THEN TRUE
    ELSE LET iso == LoadStateOrDefault(file, io).last_checked_iso
         IN IF ~iso.some \/ ~iso.parses THEN TRUE
            ELSE NumMinutes(now - iso.t) >= c.min_interval_minutes

\* v.split(|c| c == '.' || c == '-' || c == '+'): the parts of cs.
RECURSIVE SplitVersion(_, _)
SplitVersion(cs, part) ==
    IF cs = <<>> THEN <<part>>
    ELSE IF Head(cs) \in {".", "-", "+"}
    THEN <<part>> \o SplitVersion(Tail(cs), <<>>)
    ELSE SplitVersion(Tail(cs), Append(part, Head(cs)))

DigitValue(ch) ==
    CASE ch = "0" -> 0 [] ch = "1" -> 1 [] ch = "2" -> 2 [] ch = "3" -> 3
      [] ch = "4" -> 4 [] ch = "5" -> 5 [] ch = "6" -> 6 [] ch = "7" -> 7
      [] ch = "8" -> 8 [] ch = "9" -> 9

\* The digits of part as a number, or -1 when part is empty or holds
\* another character.
RECURSIVE ParseDigits(_, _)
ParseDigits(part, acc) ==
    IF part = <<>> THEN acc
    ELSE IF ~IsDigit(Head(part)) THEN -1
    ELSE ParseDigits(Tail(part), 10 * (IF acc < 0 THEN 0 ELSE acc) + DigitValue(Head(part)))

\* part.parse::<u64>(): the number, or -1 when the part is not one; a
\* leading plus sign is accepted.
ParseU64(part) ==
    IF part # <<>> /\ Head(part) = "+" THEN ParseDigits(Tail(part), -1)
    ELSE ParseDigits(part, -1)

\* The leading numeric parts, three at most, up to the first part that is
\* not a number.
RECURSIVE LeadingNumbers(_, _)
LeadingNumbers(parts, nums) ==
    IF parts = <<>> \/ Len(nums) >= 3 THEN nums
    ELSE LET n == ParseU64(Head(parts))
         IN IF n < 0 THEN nums
            ELSE LeadingNumbers(Tail(parts), Append(nums, n))

\* trim_start_matches(|c| c == 'v' || c == 'V')
RECURSIVE TrimStartV(_)
TrimStartV(cs) ==
    IF cs # <<>> /\ Head(cs) \in {"v", "V"} THEN TrimStartV(Tail(cs)) ELSE cs

\* split('.'): the parts of cs.
RECURSIVE SplitDots(_, _)
SplitDots(cs, part) ==
    IF cs = <<>> THEN <<part>>
    ELSE IF Head(cs) = "."
    THEN <<part>> \o SplitDots(Tail(cs), <<>>)
    ELSE SplitDots(Tail(cs), Append(part, Head(cs)))

\* filter_map(|x| x.parse().ok()): the parts that are numbers.
RECURSIVE NumericParts(_)
NumericParts(parts) ==
    IF parts = <<>> THEN <<>>
    ELSE LET n == ParseU64(Head(parts))
         IN (IF n < 0 THEN <<>> ELSE <<n>>) \o NumericParts(Tail(parts))

\* normalise(v), then the numbers cmp_semver reads from it: the leading
\* numbers, or, when there is none, every numeric part of v split on dots.
VersionNumbers(v) ==
    LET trimmed == TrimStartV(Chars(v))
        nums == LeadingNumbers(SplitVersion(trimmed, <<>>), <<>>)
    IN IF nums = <<>> THEN NumericParts(SplitDots(trimmed, <<>>)) ELSE nums

\* cmp_semver(a, b) == Ordering::Greater
RECURSIVE GreaterFrom(_, _, _)
GreaterFrom(pa, pb, i) ==
    LET na == IF i <= Len(pa) THEN pa[i] ELSE 0
        nb == IF i <= Len(pb) THEN pb[i] ELSE 0
    IN IF i > 3 /\ i > Len(pa) /\ i > Len(pb) THEN FALSE
       ELSE IF na > nb THEN TRUE
       ELSE IF na < nb THEN FALSE
       ELSE GreaterFrom(pa, pb, i + 1)

SemverGreater(a, b) == GreaterFrom(VersionNumbers(a), VersionNumbers(b), 1)

\* What check returns: Ok(None), Ok(Some(info)) or Err(e).
RetNone == [ok |-> TRUE, some |-> FALSE, tag |-> "", err |-> ""]

RetSome(tag) == [ok |-> TRUE, some |-> TRUE, tag |-> tag, err |-> ""]

RetErr(e) == [ok |-> FALSE, some |-> FALSE, tag |-> "", err |-> e]

\* What the request meets: kind is network_err (send fails),
\* not_modified (304), http_err (another status that is no success),
\* body_err, json_err, no_releases (an empty array) or release (a body that
\* parses, with the tag of the release chosen); etag is the ETag header.
Answer(kind, etag, tag) == [kind |-> kind, etag |-> etag, tag |-> tag]

Called(file, requested, ret) == [file |-> file, requested |-> requested, ret |-> ret]

\* The part of check after the response has come and the timestamp is
\* saved (state is the state as saved).
AfterTouch(c, file, state, net, io) ==
    IF net.kind = "not_modified" THEN Called(file, TRUE, RetNone)
    ELSE IF net.kind = "http_err" THEN Called(file, TRUE, RetErr("http status"))
    ELSE LET st1 == IF net.etag # None THEN [state EXCEPT !.etag = net.etag]
                    ELSE state
             sv1 == IF net.etag # None THEN SaveState(file, st1, io)
                    ELSE [ok |-> TRUE, file |-> file]
             tag == IF net.kind = "release" THEN net.tag ELSE ""
         IN IF ~sv1.ok THEN Called(sv1.file, TRUE, RetErr("IO error"))
            ELSE IF net.kind = "body_err"
            THEN Called(sv1.file, TRUE, RetErr("Network error"))
            ELSE IF net.kind = "json_err"
                    \/ (net.kind = "no_releases" /\ c.check_prereleases)
            THEN Called(sv1.file, TRUE, RetErr("Parsing error"))
            ELSE IF tag = "" THEN Called(sv1.file, TRUE, RetNone)
            ELSE IF SemverGreater(tag, c.current_version)
            THEN LET sv2 == SaveState(sv1.file, [st1 EXCEPT !.seen_version = tag], io)
                 IN IF ~sv2.ok THEN Called(sv2.file, TRUE, RetErr("IO error"))
                    ELSE Called(sv2.file, TRUE, RetSome(tag))
            ELSE Called(sv1.file, TRUE, RetNone)

\* UpdateChecker::check(force): the file afterwards, whether the request
\* was sent, and what is returned.
Check(c, file, now, force, net, io) ==
    IF ~force /\ ~ShouldCheckNow(c, file, now, io) THEN Called(file, FALSE, RetNone)
    ELSE LET state == LoadStateOrDefault(file, io)
         IN IF net.kind = "network_err"
            THEN Called(file, TRUE, RetErr("Network error"))
            ELSE LET touched == [state EXCEPT !.last_checked_iso = Iso(now)]
                     sv == SaveState(file, touched, io)
                 IN IF ~sv.ok THEN Called(sv.file, TRUE, RetErr("IO error"))
                    ELSE AfterTouch(c, sv.file, touched, net, io)

\* clear_cache: the state file is removed if it is there.
ClearCache(file, io) == IF io = "ok" THEN NoStateFile ELSE file

(***************************************************************************)
(* The application: the window after main has built it, and its handlers.  *)
(***************************************************************************)
\* The info popup: info_title, info_message and show_info.
NoInfo == [title |-> "", message |-> <<>>, show |-> FALSE]

\* ui.set_info_title(..); ui.set_info_message(..); ui.set_show_info(1.0),
\* when the handler ended with its info popup.
InfoAfter(box, dialog) ==
    IF dialog.kind = "info"
    THEN [title |-> dialog.title, message |-> dialog.message, show |-> TRUE]
    ELSE box

\* The checker as main sets it up: check_prereleases = false,
\* min_interval_minutes = 0.
AppChecker ==
    [min_interval_minutes |-> 0, check_prereleases |-> FALSE,
     current_version |-> "1.0.0"]

NoCall ==
    [done |-> FALSE, force |-> FALSE, net |-> Answer("none", None, ""),
     io |-> "ok", at |-> 0, before |-> NoStateFile, requested |-> FALSE,
     ret |-> RetNone]

\* The update check of main: pc is where its thread stands (spawned: check
\* not yet returned; posted: its closure waits in the event loop; done),
\* file the state file, now the clock, call the last call of check and
\* posted the popup its closure will set.
Checker(pc, c, file, now) ==
    [pc |-> pc, cfg |-> c, file |-> file, now |-> now, call |-> NoCall,
     posted |-> NoDialog]

\* The thread has ended with Ok(None): nothing is posted.
CheckerQuiet == Checker("done", AppChecker, NoStateFile, 0)

Init ==
    /\ ui = Paths("s.csv", "e.csv", "r.html", "out") @@ EmptyForm
    /\ last = Idle("init")
    /\ info = NoInfo
    /\ upd = CheckerQuiet

\* What the file dialog can return for each kind of file.
Pickable(file_type) ==
    CASE file_type = "sample_file" -> {"s.csv", "s.txt"}
      [] file_type = "epiinfo_file" -> {"e.csv", "e.txt"}
      [] file_type = "minknow_file" -> {"r.html", "r.htm"}
      [] file_type = "destination" -> {"out"}

\* ui.on_select_file: the picked path goes into the field of that kind (a
\* cancelled dialog changes nothing).
SelectFile(file_type, path) ==
    /\ path \in Pickable(file_type)
    /\ ui' = [ui EXCEPT ![file_type] = path]
    /\ last' = Idle("select_file")
    /\ UNCHANGED <<info, upd>>

\* ui.on_clear
Clear ==
    /\ ui' = [ui EXCEPT !.lab = "", !.run_num = "", !.pir_ver = "",
                        !.minknow_ver = "", !.rt_date = "", !.vp1_date = "",
                        !.seq_date = "", !.seq_kit = "", !.seq_hours = "",
                        !.fc_id = "", !.fc_pores = "", !.fc_uses = "",
                        !.minknow_file = "", !.sample_file = "",
                        !.epiinfo_file = "", !.destination = ""]
    /\ last' = Idle("clear")
    /\ UNCHANGED <<info, upd>>

\* The operator types into the form.
EditForm(form) ==
    /\ ui' = [f \in DOMAIN ui |-> IF f \in FormFields THEN form[f] ELSE ui[f]]
    /\ last' = Idle("edit")
    /\ UNCHANGED <<info, upd>>

\* ui.on_merge(mode)
Merge(mode, env) ==
    \E r \in {OnMerge(ui, mode, env)} :
       /\ ui' = r.ui
       /\ last' = r.last
       /\ info' = InfoAfter(info, r.last.dialog)
       /\ UNCHANGED upd

Modes == {"merge", "update"}

Next ==
    \/ \E t \in {"sample_file", "epiinfo_file", "minknow_file", "destination"} :
          \E p \in Pickable(t) : SelectFile(t, p)
    \/ Clear
    \/ \E f \in Forms : EditForm(f)
    \/ \E m \in Modes, env \in LifeEnvs : Merge(m, env)

Spec == Init /\ [][Next]_vars

(***************************************************************************)
(* One invocation of on_merge on the inputs drawn at the start: the form   *)
(* filled in and the paths chosen, then the files as they are when merge   *)
(* is pressed.                                                             *)
(***************************************************************************)
InitOnce ==
    /\ \E f \in OnceForms, e \in {"", "e.csv"} :
          ui = Paths("s.csv", e, "r.html", "out") @@ f
    /\ last = Idle("init")
    /\ info = NoInfo
    /\ upd = CheckerQuiet

\* Merge is pressed with a few files, whatever the form holds.
MergeOnce ==
    /\ last.op = "init"
    /\ \E m \in Modes, env \in FewEnvs : Merge(m, env)

\* Merge is pressed with the form filled in correctly, on any sheet and any
\* export (one export when no epi-info path is chosen, since the file is
\* not read then).
MergeData ==
    /\ last.op = "init"
    /\ \A f \in FormFields : ui[f] = FullForm[f]
    /\ \E m \in Modes, h \in SampleHeaders,
          ks \in BoundedSeq(SampleRowKinds, MaxSampleRows),
          g \in EpiHeaders, es \in BoundedSeq(EpiRowKinds, MaxEpiRows) :
          /\ ui.epiinfo_file = "" => EpiTable(g, es) = LifeEpi
          /\ Merge(m, GoodEnv(FullReport, SampleTable(h, ks), EpiTable(g, es)))

NextOnce == MergeOnce \/ MergeData

SpecOnce == InitOnce /\ [][NextOnce]_vars

(***************************************************************************)
(* The update checker on its own: a checker with any settings, a state     *)
(* file in any condition, the clock running, and check called with any     *)
(* answer to its request.                                                  *)
(***************************************************************************)
Checkers ==
    {[min_interval_minutes |-> m, check_prereleases |-> FALSE,
      current_version |-> "1.0.0"] : m \in {-1, 0, 1, 2}}
    \cup {[min_interval_minutes |-> 1, check_prereleases |-> TRUE,
           current_version |-> "1.0.0"]}

\* State files as a run can find them: none, one that is no JSON, one
\* without a timestamp, one whose timestamp does not parse, and ones
\* written at the instants 0 and 1.
StateFiles ==
    {NoStateFile, CorruptStateFile,
     StateFile(DefaultState),
     StateFile([DefaultState EXCEPT !.last_checked_iso = BadIso]),
     StateFile([DefaultState EXCEPT !.last_checked_iso = Iso(0)]),
     StateFile([last_checked_iso |-> Iso(1), etag |-> "etag-1",
                seen_version |-> None])}

\* What the request can meet.
Answers ==
    {Answer("network_err", None, ""), Answer("not_modified", None, ""),
     Answer("http_err", None, ""), Answer("body_err", "etag-2", ""),
     Answer("json_err", None, ""), Answer("no_releases", None, ""),
     Answer("release", "etag-2", "v1.1.0"), Answer("release", None, "V0.9"),
     Answer("release", None, "rc.2"), Answer("release", None, "")}

InitCheck ==
    /\ ui = BlankUi
    /\ last = Idle("init")
    /\ info = NoInfo
    /\ \E c \in Checkers, f \in StateFiles : upd = Checker("lib", c, f, 0)

\* Half a minute passes.
Tick ==
    /\ upd.now < MaxNow
    /\ upd' = [upd EXCEPT !.now = upd.now + 1]
    /\ UNCHANGED <<ui, last, info>>

\* checker.check(force)
CallCheck(force, net, io) ==
    \E r \in {Check(upd.cfg, upd.file, upd.now, force, net, io)} :
       /\ upd' = [upd EXCEPT
                     !.file = r.file,
                     !.call = [done |-> TRUE, force |-> force, net |-> net,
                               io |-> io, at |-> upd.now, before |-> upd.file,
                               requested |-> r.requested, ret |-> r.ret]]
       /\ UNCHANGED <<ui, last, info>>

\* checker.clear_cache()
CallClearCache(io) ==
    /\ upd' = [upd EXCEPT !.file = ClearCache(upd.file, io), !.call = NoCall]
    /\ UNCHANGED <<ui, last, info>>

NextCheck ==
    \/ Tick
    \/ \E force \in BOOLEAN, net \in Answers, io \in {"ok", "err"} :
          CallCheck(force, net, io)
    \/ \E io \in {"ok", "err"} : CallClearCache(io)

SpecCheck == InitCheck /\ [][NextCheck]_vars

(***************************************************************************)
(* main: the cache is cleared, the thread that checks for an update is     *)
(* spawned, and the window takes merges while the thread runs.             *)
(***************************************************************************)
InitApp ==
    /\ ui = Paths("s.csv", "e.csv", "r.html", "out") @@ EmptyForm
    /\ last = Idle("init")
    /\ info = NoInfo
    /\ \E f \in StateFiles, io \in {"ok", "err"} :
          upd = Checker("spawned", AppChecker, ClearCache(f, io), 0)

\* The popup the thread's closure will set for what check returned.
UpdatePopup(ret, current_version) ==
    IF ret.ok /\ ret.some
    THEN Dialog("info", "Update available",
                <<"A new version is available: v", ret.tag, "You are on v",
                  current_version, "Open the release page:">>)
    ELSE IF ~ret.ok
    THEN Dialog("info", "Update check failed", <<ret.err>>)
    ELSE NoDialog

\* The spawned thread: checker.check(false), then invoke_from_event_loop
\* with the closure unless Ok(None) came back.
ThreadCheck(net, io) ==
    /\ upd.pc = "spawned"
    /\ \E r \in {Check(upd.cfg, upd.file, upd.now, FALSE, net, io)} :
       LET popup == UpdatePopup(r.ret, upd.cfg.current_version)
       IN upd' = [upd EXCEPT
                     !.pc = IF popup = NoDialog THEN "done" ELSE "posted",
                     !.file = r.file,
                     !.call = [done |-> TRUE, force |-> FALSE, net |-> net,
                               io |-> io, at |-> upd.now, before |-> upd.file,
                               requested |-> r.requested, ret |-> r.ret],
                     !.posted = popup]
    /\ UNCHANGED <<ui, last, info>>

\* The event loop runs the closure: set_info_title, set_info_message,
\* set_show_info(1.0).
UpdateInform ==
    /\ upd.pc = "posted"
    /\ info' = InfoAfter(info, upd.posted)
    /\ upd' = [upd EXCEPT !.pc = "done"]
    /\ UNCHANGED <<ui, last>>

\* The files while the update check is under way.
AppEnvs ==
    {GoodEnv(FullReport, LifeSample, LifeEpi),
     Env("ok", FullReport, "ok", LifeSample, "ok", LifeEpi, "ok", "err")}

\* What the thread's request can meet.
AppAnswers ==
    {Answer("network_err", None, ""), Answer("not_modified", None, ""),
     Answer("release", "etag-2", "v1.1.0"), Answer("release", None, "V0.9")}

NextApp ==
    \/ \E net \in AppAnswers, io \in {"ok", "err"} : ThreadCheck(net, io)
    \/ UpdateInform
    \/ \E m \in Modes, env \in AppEnvs : Merge(m, env)

SpecApp == InitApp /\ [][NextApp]_vars

(***************************************************************************)
(* Properties of on_merge, stated on the record of the last invocation.    *)
(***************************************************************************)

\* C1: the output file is created only after every validation, join, fill
\* and projection step has succeeded, and an invocation that ends in an
\* error leaves no output file behind, not even an empty or partial one.
NoOutputFileOnError ==
    last.op = "merge" =>
        /\ last.file # "none" =>
               /\ Contains(last.stages, "validate")
               /\ Contains(last.stages, "project")
               /\ last.final # NoTable
        /\ last.status = "error" => last.file = "none"

\* C2: a cell of a filled column that holds a value before the fill holds
\* the same value after it, in the filled table and in the file written.
FillNeverOverwrites ==
    (last.op = "merge" /\ last.filled # NoTable) =>
        /\ Len(last.filled.rows) = Len(last.merged.rows)
        /\ \A i \in DOMAIN last.merged.rows : \A k \in DOMAIN RunConstants(ui) :
               LET c == RunConstants(ui)[k][1]
               IN last.merged.rows[i][c] # Null =>
                     /\ last.filled.rows[i][c] = last.merged.rows[i][c]
                     /\ last.file = "written" =>
                            last.written.rows[i][c] = last.merged.rows[i][c]

\* A fill has run on a row with a cell that already held a value other than
\* the operator's, and with a null cell that took the operator's value.
FillMetValuedCell ==
    /\ last.op = "merge" /\ last.mode = "merge" /\ last.file = "written"
    /\ \E i \in DOMAIN last.merged.rows : \E k, n \in DOMAIN RunConstants(ui) :
          LET c == RunConstants(ui)[k][1]
              d == RunConstants(ui)[n][1]
          IN /\ last.merged.rows[i][c] \notin {Null, RunConstants(ui)[k][2]}
             /\ last.filled.rows[i][c] = last.merged.rows[i][c]
             /\ last.merged.rows[i][d] = Null
             /\ last.filled.rows[i][d] = RunConstants(ui)[n][2]
             /\ RunConstants(ui)[n][2] # ""

\* C3: when every sample key equals the ICLabID of at most one epi-info
\* row, the join result, the merged table and the file written have as
\* many rows as the sample sheet.
JoinKeepsRowCount ==
    (/\ last.op = "merge"
     /\ last.joined # NoTable
     /\ \A i \in DOMAIN last.sample.rows :
            Cardinality({j \in DOMAIN last.epi.rows :
                            last.epi.rows[j]["ICLabID"] = last.sample.rows[i]["sample"]})
               <= 1)
    => /\ Len(last.joined.rows) = Len(last.sample.rows)
       /\ last.merged # NoTable => Len(last.merged.rows) = Len(last.sample.rows)
       /\ last.file = "written" => Len(last.written.rows) = Len(last.sample.rows)

\* A join of a two-row sheet in which one key has exactly one epi-info row
\* and the other has none.
JoinedWithUnmatchedRow ==
    /\ last.op = "merge" /\ last.joined # NoTable /\ last.file = "written"
    /\ Len(last.sample.rows) = 2
    /\ \E i, n \in DOMAIN last.sample.rows :
          /\ Cardinality({j \in DOMAIN last.epi.rows :
                last.epi.rows[j]["ICLabID"] = last.sample.rows[i]["sample"]}) = 1
          /\ Cardinality({j \in DOMAIN last.epi.rows :
                last.epi.rows[j]["ICLabID"] = last.sample.rows[n]["sample"]}) = 0

\* C4: the header check lets a sample sheet through if and only if the
\* sheet has every expected column.
ValidationIffSuperset ==
    (last.op = "merge" /\ Contains(last.stages, "validate")) =>
        ((/\ last.dialog.title # "Missing Columns"
          /\ \/ Contains(last.stages, "join")
             \/ Contains(last.stages, "skip_join"))
         <=> Range(expected_columns) \subseteq Range(last.sample.cols))

\* The header check has let through a sheet with a column beyond the
\* expected ones, in another order.
ValidatedWiderSheet ==
    /\ last.op = "merge" /\ Contains(last.stages, "validate")
    /\ last.dialog.title # "Missing Columns"
    /\ "Foo" \in Range(last.sample.cols)
    /\ last.sample.cols[1] # expected_columns[1]
    /\ last.file = "written"

\* C5: when the sample sheet lacks expected columns the handler stops with
\* the Missing Columns error, whose message names the samples file and then
\* lists every expected column the sheet lacks, each once, and no column
\* the sheet has; a sheet lacking only DateReported gets DateReported alone.
\* The message names no schema mode.
MissingColumnsAllListed ==
    (/\ last.op = "merge" /\ Contains(last.stages, "validate")
     /\ ~(Range(expected_columns) \subseteq Range(last.sample.cols)))
    => /\ last.status = "error" /\ last.dialog.kind = "error"
       /\ last.dialog.title = "Missing Columns"
       /\ last.file = "none"
       /\ Head(last.dialog.message)
             = "These columns were missing from Samples CSV file:"
       /\ LET listed == Tail(last.dialog.message)
          IN /\ Range(listed) = Range(expected_columns) \ Range(last.sample.cols)
             /\ \A i, j \in DOMAIN listed : i # j => listed[i] # listed[j]
             /\ Range(expected_columns) \ Range(last.sample.cols) = {"DateReported"}
                   => listed = <<"DateReported">>
       /\ \A i \in DOMAIN last.dialog.message :
             last.dialog.message[i] \notin {"DDNS", "minION"}

\* The Missing Columns error has been raised for a sheet lacking two columns.
TwoColumnsReportedMissing ==
    /\ last.op = "merge" /\ last.dialog.title = "Missing Columns"
    /\ Len(last.dialog.message) = 3
    /\ Cardinality(Range(expected_columns) \ Range(last.sample.cols)) = 2

\* C5 as first stated: the Missing Columns error lists every missing column
\* and names the active schema mode.
MissingColumnsErrorNamesMode ==
    (/\ last.op = "merge" /\ Contains(last.stages, "validate")
     /\ ~(Range(expected_columns) \subseteq Range(last.sample.cols)))
    => /\ last.dialog.title = "Missing Columns"
       /\ Range(expected_columns) \ Range(last.sample.cols)
             \subseteq Range(last.dialog.message)
       /\ \E i \in DOMAIN last.dialog.message :
             last.dialog.message[i] \in {"DDNS", "minION"}

\* C6: in the update action nothing is filled: no format check and no fill
\* runs, and every cell of the file written is the cell of the merged
\* table (a null cell written as an empty field).
UpdateNeverFills ==
    (last.op = "merge" /\ last.mode = "update" /\ last.merged # NoTable)
    => /\ ~Contains(last.stages, "format_check")
       /\ ~Contains(last.stages, "fill")
       /\ last.filled = NoTable
       /\ last.final = last.merged
       /\ last.file = "written" =>
             /\ last.written.cols = last.merged.cols
             /\ Len(last.written.rows) = Len(last.merged.rows)
             /\ \A i \in DOMAIN last.merged.rows : \A c \in Range(last.merged.cols) :
                   last.written.rows[i][c] =
                      (IF last.merged.rows[i][c] = Null THEN ""
                       ELSE last.merged.rows[i][c])

\* An update has written a row with a null cell in a filled column while the
\* form held a value for that column.
UpdateLeftNullCell ==
    /\ last.op = "merge" /\ last.mode = "update" /\ last.file = "written"
    /\ \E i \in DOMAIN last.merged.rows : \E k \in DOMAIN RunConstants(ui) :
          /\ RunConstants(ui)[k][2] # ""
          /\ last.merged.rows[i][RunConstants(ui)[k][1]] = Null
          /\ last.written.rows[i][RunConstants(ui)[k][1]] = ""

\* C7: in the join result every epi-info column other than the key is
\* present; a row whose sample value is the ICLabID of some epi-info row
\* holds one such row's values in those columns, once for each such row;
\* a row whose sample value is no row's ICLabID holds null in all of them.
LeftJoinMatching ==
    (last.op = "merge" /\ last.joined # NoTable) =>
        LET origin == Range(last.epi.cols) \ {"ICLabID"}
            match(k) == {j \in DOMAIN last.epi.rows : last.epi.rows[j]["ICLabID"] = k}
        IN /\ origin \subseteq Range(last.joined.cols)
           /\ \A r \in DOMAIN last.joined.rows :
                 LET row == last.joined.rows[r]
                 IN IF match(row["sample"]) = {}
                    THEN \A c \in origin : row[c] = Null
                    ELSE \E j \in match(row["sample"]) :
                            \A c \in origin : row[c] = last.epi.rows[j][c]
           /\ \A i \in DOMAIN last.sample.rows :
                 \A j \in match(last.sample.rows[i]["sample"]) :
                    \E r \in DOMAIN last.joined.rows :
                       /\ last.joined.rows[r]["sample"] = last.sample.rows[i]["sample"]
                       /\ \A c \in origin :
                             last.joined.rows[r][c] = last.epi.rows[j][c]

\* Samples A and B joined with an export whose one row has ICLabID A and a
\* value in Foo: two rows, the value for A and null for B.
JoinedAWithFooAndBWithout ==
    /\ last.op = "merge" /\ last.joined # NoTable
    /\ last.epi.cols = <<"ICLabID", "Foo">>
    /\ Len(last.epi.rows) = 1 /\ last.epi.rows[1]["ICLabID"] = "A"
    /\ Len(last.sample.rows) = 2
    /\ last.sample.rows[1]["sample"] = "A" /\ last.sample.rows[2]["sample"] = "B"
    /\ Len(last.joined.rows) = 2
    /\ last.joined.rows[1]["Foo"] = "e1" /\ last.joined.rows[2]["Foo"] = Null

EpidTakenFromExport ==
    (last.op = "merge" /\ last.epi_given /\ last.merged # NoTable) =>
        LET match(k) == {j \in DOMAIN last.epi.rows : last.epi.rows[j]["ICLabID"] = k}
        IN /\ "EPID" \in Range(last.merged.cols)
           /\ "EpidNumber" \notin Range(last.merged.cols)
           /\ \A r \in DOMAIN last.merged.rows :
                 LET row == last.merged.rows[r]
                 IN IF "EpidNumber" \in Range(last.epi.cols)
                    THEN IF match(row["sample"]) = {}
                         THEN row["EPID"] = Null
                         ELSE \E j \in match(row["sample"]) :
                                 row["EPID"] = last.epi.rows[j]["EpidNumber"]
                    ELSE \E i \in DOMAIN last.sample.rows :
                            /\ last.sample.rows[i]["sample"] = row["sample"]
                            /\ last.sample.rows[i]["EPID"] = row["EPID"]

\* A sheet row with an EPID of its own has been merged with an export that
\* has an EpidNumber for its key, and the row written holds the export's.
SheetEpidMetEpidNumber ==
    /\ last.op = "merge" /\ last.file = "written" /\ last.epi_given
    /\ "EpidNumber" \in Range(last.epi.cols)
    /\ Len(last.merged.rows) = Len(last.sample.rows)
    /\ \E i \in DOMAIN last.sample.rows :
          /\ last.sample.rows[i]["EPID"] = "EP-s"
          /\ last.merged.rows[i]["EPID"] = "e1"

\* C9 as first stated: a row whose EPID is empty takes the EpidNumber, a row
\* with an EPID of its own keeps it, and the merged table has an EPID
\* column and no EpidNumber column.
EpidKeptWhenPresent ==
    (/\ last.op = "merge" /\ last.epi_given /\ last.merged # NoTable
     /\ Len(last.merged.rows) = Len(last.sample.rows)) =>
        LET match(k) == {j \in DOMAIN last.epi.rows : last.epi.rows[j]["ICLabID"] = k}
        IN /\ "EPID" \in Range(last.merged.cols)
           /\ "EpidNumber" \notin Range(last.merged.cols)
           /\ \A i \in DOMAIN last.sample.rows :
                 LET own == last.sample.rows[i]["EPID"]
                 IN /\ own # Null => last.merged.rows[i]["EPID"] = own
                    /\ (/\ own = Null
                        /\ "EpidNumber" \in Range(last.epi.cols)
                        /\ match(last.sample.rows[i]["sample"]) # {})
                       => \E j \in match(last.sample.rows[i]["sample"]) :
                             last.merged.rows[i]["EPID"]
                                = last.epi.rows[j]["EpidNumber"]

\* C10: with no epi-info path and the other paths valid, the handler raises
\* no error about the epi-info file, reads no export and joins nothing; the
\* merged table is the sample sheet projected on the expected columns, in
\* their order, each row with the cells the sheet has in those columns.
NoEpiMergesSheetProjected ==
    (/\ last.op = "merge" /\ last.before.epiinfo_file = ""
     /\ EndsWith(last.before.sample_file, DotCsv)
     /\ EndsWith(last.before.minknow_file, DotHtml)
     /\ last.before.destination # "")
    => /\ Contains(last.stages, "report")
       /\ ~Contains(last.stages, "load_epi")
       /\ ~Contains(last.stages, "join")
       /\ ~last.epi_given /\ last.joined = NoTable
       /\ \A i \in DOMAIN last.dialog.message :
             last.dialog.message[i] \notin
                {"Epi Info file selected is not a CSV file. Please change to CSV.",
                 "Failed to create CSV reader for EpiInfo file:",
                 "Failed to read EpiInfo CSV - This error is likely due to incorrect CSV file encoding. Save the CSV as UTF-8 encoded and try again"}
       /\ last.merged # NoTable =>
             /\ last.merged.cols = expected_columns
             /\ Len(last.merged.rows) = Len(last.sample.rows)
             /\ \A i \in DOMAIN last.sample.rows : \A c \in Range(expected_columns) :
                   last.merged.rows[i][c] = last.sample.rows[i][c]

\* With no epi-info path, a sheet with a column beyond the expected ones
\* has been merged and written.
NoEpiWiderSheetWritten ==
    /\ last.op = "merge" /\ last.before.epiinfo_file = ""
    /\ last.file = "written"
    /\ Len(last.sample.rows) >= 1
    /\ "Foo" \in Range(last.sample.cols)
    /\ "Foo" \notin Range(last.merged.cols)

\* C10 as first stated: with no epi-info path the merge is not stopped, no
\* join is performed and the merged table is the sample table unchanged.
NoEpiLeavesSheetUnchanged ==
    (/\ last.op = "merge" /\ last.before.epiinfo_file = ""
     /\ EndsWith(last.before.sample_file, DotCsv)
     /\ EndsWith(last.before.minknow_file, DotHtml)
     /\ last.before.destination # "")
    => /\ ~Contains(last.stages, "load_epi")
       /\ ~Contains(last.stages, "join")
       /\ last.merged # NoTable => last.merged = last.sample

(***************************************************************************)
(* The format checks of the merge action.  ui is the form as the checks    *)
(* read it: after the report has been copied into it.                      *)
(***************************************************************************)

\* C11: in the merge action the invalid run number and every invalid date
\* are named together in the one Input Format Error raised, and the handler
\* then fills nothing and writes nothing.
FormatErrorsShownTogether ==
    (last.op = "merge" /\ Contains(last.stages, "format_check")) =>
        LET msg == last.dialog.message
            badDates == {f \in DOMAIN DateFields(ui) :
                            /\ DateFields(ui)[f][2] # ""
                            /\ ~date_regex(DateFields(ui)[f][2])}
            badRun == ui.run_num # "" /\ ~run_num_regex(ui.run_num)
        IN (badDates # {} \/ badRun) =>
              /\ last.status = "error" /\ last.dialog.kind = "error"
              /\ last.dialog.title = "Input Format Error"
              /\ \A f \in badDates : \E i \in 1..(Len(msg) - 2) :
                    /\ msg[i] = "Invalid date format for field"
                    /\ msg[i + 1] = DateFields(ui)[f][1]
                    /\ msg[i + 2] = DateFields(ui)[f][2]
              /\ badRun => \E i \in 1..(Len(msg) - 1) :
                    /\ msg[i] = "Invalid run number format:"
                    /\ msg[i + 1] = ui.run_num
              /\ ~Contains(last.stages, "fill")
              /\ ~Contains(last.stages, "write")
              /\ last.filled = NoTable /\ last.file = "none"

\* An Input Format Error raised for a bad run number and two bad dates.
ThreeFormatErrorsAtOnce ==
    /\ last.op = "merge" /\ last.dialog.title = "Input Format Error"
    /\ ui.run_num = "2025020_5"
    /\ ui.rt_date = "06/02/2025" /\ ui.fasta_date = "06/02/2025"
    /\ Len(last.dialog.message) = 11

\* C12: in the merge action a run number that is not empty and is not eight
\* digits, an underscore and three digits stops the handler with an Input
\* Format Error that says "Invalid run number format:" and "Expected
\* yyyymmdd_xxx."; an empty or well-formed run number raises no such error.
RunNumberFormatChecked ==
    (last.op = "merge" /\ Contains(last.stages, "format_check")) =>
        LET msg == last.dialog.message
            named == Contains(msg, "Invalid run number format:")
            cs == Chars(ui.run_num)
            wellFormed == /\ Len(cs) = 12
                          /\ \A i \in {1, 2, 3, 4, 5, 6, 7, 8, 10, 11, 12} :
                                IsDigit(cs[i])
                          /\ cs[9] = "_"
        IN /\ named <=> (ui.run_num # "" /\ ~wellFormed)
           /\ named => /\ last.status = "error"
                       /\ last.dialog.title = "Input Format Error"
                       /\ Contains(msg, "Expected yyyymmdd_xxx.")
                       /\ Contains(msg, ui.run_num)
                       /\ last.file = "none"
           /\ ui.run_num \in {"2025020_5", "20250206_0055"} => named
           /\ ui.run_num \in {"", "20250206_005"} => ~named

\* The run number 2025020_5 alone has stopped a merge.
ShortRunNumberRejected ==
    /\ last.op = "merge" /\ last.mode = "merge"
    /\ last.dialog.title = "Input Format Error"
    /\ ui.run_num = "2025020_5"
    /\ last.dialog.message
          = <<"Invalid run number format:", "2025020_5", "Expected yyyymmdd_xxx.",
              "Refer to the Guide for more information.">>

\* C13: in the merge action each of the four dates (RT PCR, VP1 PCR,
\* sequencing, fasta generation) is checked: it is named in the Input Format
\* Error exactly when it is not empty and not yyyy-mm-dd.  The VP1 PCR date
\* is checked like the others, whatever the schema mode; the update action
\* checks no date.
FourDatesChecked ==
    last.op = "merge" =>
        /\ Contains(last.stages, "format_check") =>
              \A p \in {<<"RT PCR Date", ui.rt_date>>,
                         <<"VP1 PCR Date", ui.vp1_date>>,
                         <<"Sequencing Date", ui.seq_date>>,
                         <<"Fasta Generation Date", ui.fasta_date>>} :
                 (p[2] # "" /\ ~date_regex(p[2]))
                 <=> (/\ last.dialog.title = "Input Format Error"
                      /\ \E i \in 1..(Len(last.dialog.message) - 2) :
                            /\ last.dialog.message[i] = "Invalid date format for field"
                            /\ last.dialog.message[i + 1] = p[1]
                            /\ last.dialog.message[i + 2] = p[2])
        /\ last.mode = "update" =>
              /\ ~Contains(last.stages, "format_check")
              /\ last.dialog.title # "Input Format Error"

\* A merge stopped by an ill-formatted VP1 PCR date alone.
Vp1DateAloneRejected ==
    /\ last.op = "merge" /\ last.mode = "merge"
    /\ last.dialog.message
          = <<"Invalid date format for field", "VP1 PCR Date", "06/02/2025",
              "Expected yyyy-mm-dd.", "Refer to the Guide for more information.">>

\* C13 as first stated: the dates checked depend on the schema mode, and in
\* minION mode an ill-formatted VP1 date never causes a format error.  The
\* handler reads no schema mode, so the statement is made for either mode.
Vp1DateUncheckedInMinION ==
    \A M \in {"DDNS", "minION"} :
        (last.op = "merge" /\ Contains(last.stages, "format_check")) =>
            LET vp1Named == Contains(last.dialog.message, "VP1 PCR Date")
                vp1Bad == ui.vp1_date # "" /\ ~date_regex(ui.vp1_date)
            IN /\ M = "DDNS" => (vp1Bad <=> vp1Named)
               /\ M = "minION" => ~vp1Named

(***************************************************************************)
(* The fill and the projection.                                            *)
(***************************************************************************)

\* C14: the value filled into PositiveControlPCRCheck is Pass for the
\* selection Positive Passed, Fail for Positive Failed, the empty text for
\* Unselected and unknown for any other text, and likewise for the negative
\* control; it is always one of these four.
ControlsNormalized ==
    (last.op = "merge" /\ last.filled # NoTable) =>
        LET four == {"Pass", "Fail", "", "unknown"}
            pos == IF ui.pos_con = "Positive Passed" THEN "Pass"
                   ELSE IF ui.pos_con = "Positive Failed" THEN "Fail"
                   ELSE IF ui.pos_con = "Unselected" THEN "" ELSE "unknown"
            neg == IF ui.neg_con = "Negative Passed" THEN "Pass"
                   ELSE IF ui.neg_con = "Negative Failed" THEN "Fail"
                   ELSE IF ui.neg_con = "Unselected" THEN "" ELSE "unknown"
        IN \A i \in DOMAIN last.merged.rows :
              /\ last.merged.rows[i]["PositiveControlPCRCheck"] = Null =>
                    /\ last.filled.rows[i]["PositiveControlPCRCheck"] = pos
                    /\ last.filled.rows[i]["PositiveControlPCRCheck"] \in four
              /\ last.merged.rows[i]["NegativeControlPCRCheck"] = Null =>
                    /\ last.filled.rows[i]["NegativeControlPCRCheck"] = neg
                    /\ last.filled.rows[i]["NegativeControlPCRCheck"] \in four

\* A fill with selections outside the expected ones: both controls are
\* written as unknown.
ControlsFilledUnknown ==
    /\ last.op = "merge" /\ last.file = "written"
    /\ ui.pos_con = "Negative Passed" /\ ui.neg_con = "maybe"
    /\ \E i \in DOMAIN last.merged.rows :
          /\ last.merged.rows[i]["PositiveControlPCRCheck"] = Null
          /\ last.merged.rows[i]["NegativeControlPCRCheck"] = Null
          /\ last.written.rows[i]["PositiveControlPCRCheck"] = "unknown"
          /\ last.written.rows[i]["NegativeControlPCRCheck"] = "unknown"

\* C15: after the fill of the merge action a cell that was null holds the
\* form's value for its column: institute the lab, RunNumber the run
\* number, RTPCRMachine and VP1PCRMachine both the one PCR machine field, and
\* so on for the fifteen columns listed; RTPCRprimers, VP1primers and every
\* other column outside the filled ones are left as they were.
FillTakesFormValues ==
    (last.op = "merge" /\ last.filled # NoTable) =>
        LET from == { <<"institute", "lab">>, <<"RunNumber", "run_num">>,
                      <<"MinKNOWSoftwareVersion", "minknow_ver">>,
                      <<"AnalysisPipelineVersion", "pir_ver">>,
                      <<"DateRTPCR", "rt_date">>, <<"DateVP1PCR", "vp1_date">>,
                      <<"RTPCRMachine", "pcr_machine">>,
                      <<"VP1PCRMachine", "pcr_machine">>,
                      <<"LibraryPreparationKit", "seq_kit">>,
                      <<"DateSeqRunLoaded", "seq_date">>,
                      <<"FlowCellID", "fc_id">>, <<"FlowCellPriorUses", "fc_uses">>,
                      <<"PoresAvilableAtFlowCellCheck", "fc_pores">>,
                      <<"RunHoursDuration", "seq_hours">>,
                      <<"DateFastaGenerated", "fasta_date">> }
            filledCols == {p[1] : p \in from}
                             \cup {"PositiveControlPCRCheck", "NegativeControlPCRCheck"}
        IN \A i \in DOMAIN last.merged.rows :
              /\ \A p \in from :
                    last.merged.rows[i][p[1]] = Null =>
                       last.filled.rows[i][p[1]] = ui[p[2]]
              /\ \A c \in Range(last.merged.cols) \ filledCols :
                    last.filled.rows[i][c] = last.merged.rows[i][c]

\* A fill of a row whose machines and primers were null: both machines took
\* the PCR machine of the form, the primers stayed null.
MachinesFilledPrimersNot ==
    /\ last.op = "merge" /\ last.file = "written"
    /\ ui.pcr_machine = "pcr-M"
    /\ \E i \in DOMAIN last.merged.rows :
          /\ \A c \in {"RTPCRMachine", "VP1PCRMachine", "RTPCRprimers", "VP1primers"} :
                last.merged.rows[i][c] = Null
          /\ last.filled.rows[i]["RTPCRMachine"] = "pcr-M"
          /\ last.filled.rows[i]["VP1PCRMachine"] = "pcr-M"
          /\ last.filled.rows[i]["RTPCRprimers"] = Null
          /\ last.filled.rows[i]["VP1primers"] = Null

\* C15 as first stated: after the fill every null cell of every designated
\* column, the two primers columns among them, holds the value of the
\* column's own field.
EachDesignatedColumnFilled ==
    (last.op = "merge" /\ last.filled # NoTable) =>
        \A i \in DOMAIN last.merged.rows :
           /\ last.merged.rows[i]["RunNumber"] = Null =>
                 last.filled.rows[i]["RunNumber"] = ui.run_num
           /\ last.merged.rows[i]["FlowCellID"] = Null =>
                 last.filled.rows[i]["FlowCellID"] = ui.fc_id
           /\ \A c \in {"RTPCRMachine", "VP1PCRMachine", "RTPCRprimers", "VP1primers"} :
                 last.merged.rows[i][c] = Null => last.filled.rows[i][c] # Null

\* C16: the table written has exactly the expected columns in their order,
\* in both actions and with or without an epi-info export; projecting
\* changes no cell of a kept column: not from the join result to the merged
\* table (EPID being the join's EpidNumber), not from the sheet to the
\* merged table when nothing is joined, not from the filled or merged table
\* to the table written.  A sheet with exactly the expected columns, updated
\* without an export, is written as it was read.
OutputProjected ==
    (last.op = "merge" /\ last.file = "written") =>
        LET pre == IF last.mode = "merge" THEN last.filled ELSE last.merged
            E == Range(expected_columns)
        IN /\ last.merged.cols = expected_columns
           /\ last.final.cols = expected_columns
           /\ last.written.cols = expected_columns
           /\ Len(last.final.rows) = Len(pre.rows)
           /\ \A i \in DOMAIN pre.rows : \A c \in E :
                 last.final.rows[i][c] = pre.rows[i][c]
           /\ last.epi_given =>
                 /\ Len(last.merged.rows) = Len(last.joined.rows)
                 /\ \A r \in DOMAIN last.joined.rows : \A c \in E :
                       last.merged.rows[r][c] =
                          last.joined.rows[r][IF c = "EPID" THEN "EpidNumber" ELSE c]
           /\ ~last.epi_given =>
                 /\ Len(last.merged.rows) = Len(last.sample.rows)
                 /\ \A i \in DOMAIN last.sample.rows : \A c \in E :
                       last.merged.rows[i][c] = last.sample.rows[i][c]
           /\ (/\ ~last.epi_given /\ last.mode = "update"
               /\ last.sample.cols = expected_columns)
              => /\ Len(last.written.rows) = Len(last.sample.rows)
                 /\ \A i \in DOMAIN last.sample.rows : \A c \in E :
                       last.written.rows[i][c] =
                          (IF last.sample.rows[i][c] = Null THEN ""
                           ELSE last.sample.rows[i][c])

\* A sheet with another column order has been joined with an export that
\* brought a column outside the expected ones, and written.
WiderJoinProjected ==
    /\ last.op = "merge" /\ last.file = "written" /\ last.epi_given
    /\ Len(last.joined.rows) >= 1
    /\ "Foo" \in Range(last.joined.cols)
    /\ last.sample.cols[1] = "DateReported"
    /\ last.written.cols[1] = "sample"

(***************************************************************************)
(* The run report and the form.                                            *)
(***************************************************************************)

\* C17: whatever the run report holds, a merge action whose form held a
\* well-formed run number and well-formed dates when it was invoked is not
\* stopped by a format error.
ReportNeverStopsMerge ==
    (/\ last.op = "merge" /\ last.mode = "merge" /\ last.report_read
     /\ last.before.run_num = "" \/ run_num_regex(last.before.run_num)
     /\ \A f \in {"rt_date", "vp1_date", "seq_date", "fasta_date"} :
           last.before[f] = "" \/ date_regex(last.before[f]))
    => last.dialog.title # "Input Format Error"

\* C18: once the report is read, each of the six fields it feeds holds
\* Unknown (0 for the pore count) when the report has no marker or its JSON
\* has no entry for the field, whatever the field held before.
ReportFieldsDefault ==
    (last.op = "merge" /\ last.report_read) =>
        LET r == last.report
            has(entries, title) ==
                \E i \in DOMAIN entries : entries[i].title = title
            lacks(found) == ~r.marker \/ (r.json_ok /\ ~found)
        IN /\ lacks(has(r.data.software_versions, "MinKNOW"))
                 => ui.minknow_ver = "Unknown"
           /\ lacks(has(r.data.run_setup, "Flow cell ID"))
                 => ui.fc_id = "Unknown"
           /\ lacks(has(r.data.run_setup, "Kit type"))
                 => ui.seq_kit = "Unknown"
           /\ lacks(has(r.data.run_settings, "Run limit"))
                 => ui.seq_hours = "Unknown"
           /\ lacks(r.data.run_end_time # Absent)
                 => ui.seq_date = "Unknown"
           /\ lacks(r.data.pore_available # Absent)
                 => ui.fc_pores = "0"

\* C19: no value of an earlier run report appears in a later output: a
\* file written from a report without the marker holds the flow cell ID
\* FBA38845, which only a report supplies, in no cell that the fill wrote.
NoEarlierReportValueWritten ==
    (/\ last.op = "merge" /\ last.mode = "merge" /\ last.file = "written"
     /\ ~last.report.marker)
    => \A i \in DOMAIN last.merged.rows :
          last.merged.rows[i]["FlowCellID"] = Null
             => last.written.rows[i]["FlowCellID"] # "FBA38845"

\* C20: an invocation of merge, in either action and whether it succeeds
\* or fails, leaves every field of the form as it was when invoked.
FormUnchangedByMerge ==
    last.op = "merge" => \A f \in FormFields : ui[f] = last.before[f]

(***************************************************************************)
(* The checks before any file is touched.                                  *)
(***************************************************************************)

\* C21: merge returns silently, having opened, read and created nothing and
\* raised no dialog, exactly when the sample path, the report path or the
\* destination is empty; an empty epi-info path alone does not make it so.
SilentWhenInputMissing ==
    last.op = "merge" =>
        LET b == last.before
            missing == b.sample_file = "" \/ b.minknow_file = "" \/ b.destination = ""
        IN /\ missing <=> last.status = "silent"
           /\ missing =>
                 /\ last.dialog = NoDialog
                 /\ last.stages = <<>>
                 /\ ~last.report_read
                 /\ last.sample = NoTable /\ last.epi = NoTable
                 /\ last.file = "none"
                 /\ ui = b
           /\ (b.epiinfo_file = "" /\ ~missing) =>
                 /\ last.status # "silent"
                 /\ last.dialog # NoDialog

\* Merge was pressed with the sheet, the export and the report chosen but no
\* destination, and returned silently.
SilentWithoutDestination ==
    /\ last.op = "merge" /\ last.status = "silent"
    /\ last.before.sample_file = "s.csv" /\ last.before.epiinfo_file = "e.csv"
    /\ last.before.minknow_file = "r.html" /\ last.before.destination = ""

\* C22: with the three required paths given, merge ends with the one error
\* Invalid Input, before any file is read and without output, exactly when
\* the sample path does not end in .csv, a given epi-info path does not end
\* in .csv, or the report path does not end in .html.
InvalidExtensionStops ==
    (last.op = "merge" /\ last.status # "silent") =>
        LET b == last.before
            badSample == b.sample_file \notin {"s.csv"}
            badEpi == b.epiinfo_file \notin {"", "e.csv"}
            badReport == b.minknow_file \notin {"r.html"}
        IN /\ (badSample \/ badEpi \/ badReport)
                 <=> last.dialog.title = "Invalid Input"
           /\ last.dialog.title = "Invalid Input" =>
                 /\ last.status = "error" /\ last.dialog.kind = "error"
                 /\ last.stages = <<>> /\ ~last.report_read
                 /\ last.sample = NoTable /\ last.epi = NoTable
                 /\ last.file = "none"
                 /\ last.dialog.message =
                       (IF badSample
                        THEN <<"Sample file selected is not a CSV file. Please change to CSV.">>
                        ELSE IF badEpi
                        THEN <<"Epi Info file selected is not a CSV file. Please change to CSV.">>
                        ELSE <<"File selected is not a HTML file. Please change to HTML.">>)

\* Merge was pressed with a report named r.htm, the other paths being
\* right, and stopped with Invalid Input.
HtmReportRejected ==
    /\ last.op = "merge" /\ last.dialog.title = "Invalid Input"
    /\ last.before.sample_file = "s.csv" /\ last.before.epiinfo_file = "e.csv"
    /\ last.before.minknow_file = "r.htm"

(***************************************************************************)
(* Failures of the join.                                                   *)
(***************************************************************************)

\* C23: once the sheet's shared columns are dropped, the invocation ends
\* with Merge Error exactly when the sheet's side has no column sample or the
\* export has no column ICLabID; the message is the fixed text followed by
\* the join's own error, and nothing is joined, filled or written.
JoinFailureIsMergeError ==
    (last.op = "merge" /\ last.sample_side # NoTable) =>
        LET noKey == \/ ~Contains(last.sample_side.cols, "sample")
                     \/ ~Contains(last.epi.cols, "ICLabID")
        IN /\ noKey <=> last.dialog.title = "Merge Error"
           /\ noKey =>
                 /\ last.status = "error" /\ last.dialog.kind = "error"
                 /\ last.dialog.message =
                       <<"Failed to merge dataframes. Reason ->", "ColumnNotFound">>
                 /\ last.joined = NoTable /\ last.merged = NoTable
                 /\ last.final = NoTable /\ last.file = "none"

\* A complete sheet met an export without ICLabID: Merge Error.
ExportWithoutKeyStopsJoin ==
    /\ last.op = "merge" /\ last.dialog.title = "Merge Error"
    /\ Contains(last.sample_side.cols, "sample")
    /\ ~Contains(last.epi.cols, "ICLabID")
    /\ Len(last.sample.rows) >= 1

\* C23 as first stated: the message of a Merge Error names the columns of
\* the sheet and the columns of the export.
MergeErrorListsBothTables ==
    (last.op = "merge" /\ last.dialog.title = "Merge Error") =>
        /\ Range(last.sample.cols) \subseteq Range(last.dialog.message)
        /\ Range(last.epi.cols) \subseteq Range(last.dialog.message)

\* C30: when the export has a column named sample, the sheet's side loses
\* its column sample with the other shared columns, the join cannot run, and
\* the invocation ends with Merge Error and no file, although the sheet has
\* every expected column and the export has its key ICLabID.
ExportNamedSampleStopsJoin ==
    (/\ last.op = "merge" /\ last.sample_side # NoTable
     /\ Contains(last.epi.cols, "sample"))
    => /\ last.missing = <<>>
       /\ Contains(last.sample.cols, "sample")
       /\ ~Contains(last.sample_side.cols, "sample")
       /\ last.status = "error"
       /\ last.dialog.title = "Merge Error"
       /\ last.joined = NoTable /\ last.file = "none"

\* A complete sheet met an export with the columns sample and ICLabID:
\* Merge Error.
SampleColumnInExport ==
    /\ last.op = "merge" /\ last.dialog.title = "Merge Error"
    /\ Contains(last.epi.cols, "sample") /\ Contains(last.epi.cols, "ICLabID")
    /\ last.missing = <<>>
    /\ Len(last.sample.rows) >= 1 /\ Len(last.epi.rows) >= 1

\* C29: in the join result a row of the sheet that matches no row of the
\* export is there and holds null in every column that the export shares
\* with the sheet (the sheet's EPID going by the name EpidNumber when the
\* columns are compared), whatever the sheet held there; so does the merged
\* table in the expected columns among them, EPID for EpidNumber.
UnmatchedRowLosesSharedCells ==
    (last.op = "merge" /\ last.joined # NoTable) =>
        LET sheet == (Range(last.sample.cols) \ {"EPID"}) \cup {"EpidNumber"}
            shared == sheet \cap Range(last.epi.cols)
            inMerged(c) == IF c = "EpidNumber" THEN "EPID" ELSE c
            keys == {last.epi.rows[j]["ICLabID"] : j \in DOMAIN last.epi.rows}
            unmatched == {i \in DOMAIN last.sample.rows :
                             last.sample.rows[i]["sample"] \notin keys}
        IN /\ \A i \in unmatched :
                 \E r \in DOMAIN last.joined.rows :
                    last.joined.rows[r]["sample"] = last.sample.rows[i]["sample"]
           /\ \A r \in DOMAIN last.joined.rows :
                 last.joined.rows[r]["sample"] \notin keys =>
                    /\ \A c \in shared : last.joined.rows[r][c] = Null
                    /\ last.merged # NoTable =>
                          \A c \in shared :
                             inMerged(c) \in Range(expected_columns) =>
                                last.merged.rows[r][inMerged(c)] = Null

\* A row of the sheet with its own EPID and country matched no row of an
\* export that has EpidNumber and Country: both cells are written empty.
UnmatchedRowWrittenEmpty ==
    /\ last.op = "merge" /\ last.mode = "update" /\ last.file = "written"
    /\ last.epi_given /\ Len(last.epi.rows) >= 1
    /\ Contains(last.epi.cols, "EpidNumber") /\ Contains(last.epi.cols, "Country")
    /\ \E i \in DOMAIN last.sample.rows :
          /\ last.sample.rows[i]["EPID"] = "EP-s"
          /\ last.sample.rows[i]["Country"] = "s-val"
          /\ \A j \in DOMAIN last.epi.rows :
                last.epi.rows[j]["ICLabID"] # last.sample.rows[i]["sample"]
          /\ \E r \in DOMAIN last.written.rows :
                /\ last.written.rows[r]["sample"] = last.sample.rows[i]["sample"]
                /\ last.written.rows[r]["EPID"] = ""
                /\ last.written.rows[r]["Country"] = ""

(***************************************************************************)
(* The order of the stages.                                                *)
(***************************************************************************)

\* C25: the stages of an invocation are an initial part of: read the run
\* report, load the sheet, load the export (when a path is given), check
\* the sheet's header for the expected columns, join (or skip the join),
\* check the formats and fill (merge action only), project, write; the
\* whole of it when the invocation succeeds.  The header check is made on
\* the sheet as loaded, before any join, and a failed stage is the last.
StagesInOrder ==
    (last.op = "merge" /\ last.status # "silent") =>
        LET epi == last.before.epiinfo_file # ""
            canon == <<"report", "load_sample">>
                     \o (IF epi THEN <<"load_epi">> ELSE <<>>)
                     \o <<"validate">>
                     \o (IF epi THEN <<"join">> ELSE <<"skip_join">>)
                     \o (IF last.mode = "merge"
                         THEN <<"format_check", "fill">> ELSE <<>>)
                     \o <<"project", "write">>
            n == Len(last.stages)
        IN /\ n <= Len(canon)
           /\ last.stages = SubSeq(canon, 1, n)
           /\ last.status = "ok" => n = Len(canon)
           /\ (last.status = "error" /\ n = Len(canon)) => last.file # "written"
           /\ Contains(last.stages, "validate") =>
                 /\ Range(last.missing) = Range(expected_columns) \ Range(last.sample.cols)
                 /\ last.missing # <<>> =>
                       /\ last.dialog.title = "Missing Columns"
                       /\ last.stages[n] = "validate"
                       /\ last.joined = NoTable

\* A merge action with an export went through all nine stages.
AllStagesRun ==
    /\ last.op = "merge" /\ last.status = "ok"
    /\ last.stages = <<"report", "load_sample", "load_epi", "validate", "join",
                       "format_check", "fill", "project", "write">>
    /\ Len(last.joined.rows) >= 1

\* C25 as first stated: when an export is given the header check comes
\* after the join and is made on the join's result.
HeaderCheckedAfterJoin ==
    (last.op = "merge" /\ last.epi_given /\ Contains(last.stages, "validate")) =>
        \E i, j \in DOMAIN last.stages :
           /\ last.stages[i] = "join" /\ last.stages[j] = "validate"
           /\ i < j

(***************************************************************************)
(* Failures end in an error popup.                                         *)
(***************************************************************************)

\* An invocation ends silently, with success or with an error popup that
\* has a title and a message; each file operation that fails and each table
\* operation that fails ends it with the error popup of that failure.
EndsInErrorPopup ==
    last.op = "merge" =>
        LET e == last.dialog
            endsWith(title) ==
                /\ last.status = "error" /\ e.kind = "error" /\ e.title = title
        IN /\ last.status \in {"silent", "ok", "error"}
           /\ last.status = "error" <=> e.kind = "error"
           /\ e.kind = "error" => (e.title # "" /\ e.message # <<>>)
           /\ last.status # "ok" => last.file # "written"
           /\ last.stages # <<>> =>
                 LET at == last.stages[Len(last.stages)]
                     env == [html |-> last.report_read,
                             sample |-> last.sample # NoTable,
                             epi |-> last.epi_given]
                 IN /\ (at = "report" /\ ~env.html) =>
                          (endsWith("File Open Error") \/ endsWith("File Read Error"))
                    /\ (at = "load_sample" /\ ~env.sample) =>
                          (endsWith("CSV Reader Error") \/ endsWith("CSV Read Error"))
                    /\ (at = "load_epi" /\ ~env.epi) =>
                          (endsWith("CSV Reader Error") \/ endsWith("CSV Read Error"))
                    /\ (at = "validate") => endsWith("Missing Columns")
                    /\ (at = "join") =>
                          \/ endsWith("Rename Error")
                          \/ endsWith("Merge Error")
                          \/ endsWith("Select Columns Error")
                    /\ (at = "format_check") => endsWith("Input Format Error")
                    /\ (at = "write" /\ last.file # "written") =>
                          (endsWith("File Create Error") \/ endsWith("CSV Write Error"))

\* C24: no failure inside an invocation ends it otherwise than with its
\* error popup (title and message), and a merge pressed after a failed
\* invocation runs to one of the three ends like any other.
FailuresEndInErrorPopup ==
    /\ []EndsInErrorPopup
    /\ [][(last.op = "merge" /\ last.status = "error" /\ last'.op = "merge")
            => last'.status \in {"silent", "ok", "error"}]_vars

\* After a first failure (the run report left in the form what only a
\* report supplies) merge was pressed again and the sheet could not be
\* read: CSV Read Error, with its message.
SheetUnreadableAfterFailure ==
    /\ last.op = "merge" /\ last.status = "error"
    /\ last.dialog.title = "CSV Read Error"
    /\ last.stages = <<"report", "load_sample">>
    /\ last.dialog.message # <<>>
    /\ last.before.fc_id = "FBA38845"

(***************************************************************************)
(* The update checker.                                                     *)
(***************************************************************************)
\* The saved timestamp a call of check could read: the state file was
\* there, was JSON and could be opened, and held a timestamp that parses.
ReadableStamp(k) ==
    /\ k.io = "ok" /\ k.before.exists /\ k.before.json_ok
    /\ k.before.state.last_checked_iso.some
    /\ k.before.state.last_checked_iso.parses

\* C28: a call of check that is not forced, with min_interval_minutes > 0
\* and a saved timestamp it can read and parse that is less than
\* min_interval_minutes old, returns Ok(None), sends no request and leaves
\* the state file as it was; a forced call, a call with
\* min_interval_minutes <= 0 and a call that finds no timestamp it can
\* parse go on to the request.
ThrottleRespected ==
    upd.call.done =>
        LET k == upd.call
            m == upd.cfg.min_interval_minutes
            age == k.at - k.before.state.last_checked_iso.t
        IN /\ (~k.force /\ m > 0 /\ ReadableStamp(k) /\ age < 2 * m) =>
                 (~k.requested /\ k.ret = RetNone /\ upd.file = k.before)
           /\ (k.force \/ m <= 0 \/ ~ReadableStamp(k)) => k.requested

\* Half a minute after a check, with an interval of a minute, check was
\* called again without force and held back.
ThrottledCall ==
    /\ upd.call.done /\ ~upd.call.force /\ ~upd.call.requested
    /\ upd.cfg.min_interval_minutes = 1
    /\ upd.call.before.state.last_checked_iso = Iso(1)
    /\ upd.call.at = 2
    /\ upd.call.ret = RetNone

\* C27: every call of check that goes on to the request, and whose state
\* file can be written, leaves a state file whose last_checked_iso is the
\* time of the call, whatever the request met.
TimestampAlwaysRecorded ==
    (upd.call.done /\ upd.call.requested /\ upd.call.io = "ok") =>
        /\ upd.file.exists /\ upd.file.json_ok
        /\ upd.file.state.last_checked_iso = Iso(upd.call.at)

\* C26: the result a merge reported stays what the window shows for it,
\* whatever the update check does: after a merge that ended with its success
\* message the info popup carries that title and message.
MergeResultStaysReported ==
    (last.op = "merge" /\ last.dialog.kind = "info") =>
        /\ info.title = last.dialog.title
        /\ info.message = last.dialog.message

====
